---------------------------- MODULE Spec2Model ----------------------------
(***************************************************************************)
(* Dominance grid engine of brew-country: computeDominance,                *)
(* smoothWinnerGrid and mergeSmallIslands (domain/dominance.ts) with the   *)
(* geo helper they call (domain/geo.ts).                                   *)
(*                                                                         *)
(* Number representation.  The code works on IEEE doubles; the model uses  *)
(* integers in fixed units:                                                *)
(*   latitude / longitude : 1e-4 degree                                    *)
(*   distances            : metres (haversineDistanceKm * 1000, rounded)   *)
(*   radii                : kilometres (as in the code)                    *)
(*   weights              : 1/4000  (1.0 = 4000, 0.001 = 4)                *)
(*   margin               : a fraction [num, den], den > 0                 *)
(* Sums of weights are exact in the model (no floating-point rounding).    *)
(***************************************************************************)
EXTENDS Integers, Sequences, FiniteSets, TLC

VARIABLES
    pc,             \* position of the computation: "idle", "computed", "smoothed", "merged", ...
    votes,          \* flat votes of the request (Vote[])
    weightedVotes,  \* weighted votes of the request (WeightedVote[]); <<>> = undefined
    radiusKm,       \* nominal radius of the request
    cells,          \* CellResult[] (row-major), <<>> before computeDominance ran
    rows,           \* grid height the passes are called with
    cols,           \* grid width the passes are called with
    prevWinners,    \* winnerBeerId of every cell before the last post-processing pass
    passArg,        \* iterations / minSize the last post-processing pass was called with
    gridSpec,             \* gridSpec of the request / of the DominanceResult
    smoothingIterations,  \* request field; None when the caller left it out
    mergeIslandSize,      \* request field; None when the caller left it out
    gridCells,      \* GridCell[] precomputeGrid returned to the worker
    outbox,         \* WorkerOutput messages the worker posted, oldest first
    mockTime,       \* the mock clock (domain/clock.ts): None, or Some(t) while a time is held
    regions,        \* Region[] extractRegions returned, <<>> before it ran
    query,          \* arguments of the last lookup
    found,          \* result of the last lookup
    dateNow,        \* Date.now(), the real clock (ms)
    drinkVotes,     \* the drink votes the store holds for the user (DrinkVote[])
    checkin,        \* arguments of the last validateDrinkVote call
    validation,     \* ValidationResult of the last validateDrinkVote call
    call,           \* the clock or domain function called last, with its arguments
    ret,            \* what that call returned
    users,          \* User[] the weighted votes are built from
    otrVotes        \* OnTheRoadVote[] the weighted votes are built from

workerVars == <<gridSpec, smoothingIterations, mergeIslandSize, gridCells, outbox, mockTime>>
lookupVars == <<regions, query, found>>
drinkVars == <<dateNow, drinkVotes, checkin, validation, call, ret, users, otrVotes>>

vars == <<pc, votes, weightedVotes, radiusKm, cells, rows, cols, prevWinners, passArg,
          workerVars, lookupVars, drinkVars>>

(***************************************************************************)
(* Bounds of the model                                                     *)
(***************************************************************************)
MaxVotes == 3          \* flat + weighted votes in one request
MaxIterations == 2     \* largest smoothing iteration count tried
MaxMinSize == 3        \* largest island size threshold tried

Null == "null"

\* A value that may be null or undefined: None, or Some(x) holding x.
None == <<>>
Some(x) == <<x>>
BeerIds == {"augustiner", "paulaner", "hofbraeu"}

Abs(x) == IF x < 0 THEN -x ELSE x

\* getNow (domain/clock.ts): mockTime ?? Date.now().
getNow == IF mockTime = None THEN dateNow ELSE mockTime[1]

\* mockTime = time.
setMockTime(time) == time

\* Fault: the delta is added to the real time although a mock time is held.
advanceMockTime_FromReal(deltaMs) == Some(dateNow + deltaMs)

\* mockTime = (mockTime ?? Date.now()) + deltaMs.
advanceMockTime(deltaMs) == Some((IF mockTime = None THEN dateNow ELSE mockTime[1]) + deltaMs)

\* mockTime = null.
resetClock == None

\* mockTime !== null.
isMockActive == mockTime # None

\* A function on 1..n as an array (a tuple of n elements).
AsArray(f, n) == SubSeq(f, 1, n)
Min(a, b) == IF a < b THEN a ELSE b

(***************************************************************************)
(* Geometry.  Grid cells as precomputeGrid yields them for                 *)
(* {minLat 48.0, maxLat 48.3, minLon 11.4, maxLon 11.9, cellSize 10 km}    *)
(* (3 x 3 cells, row 0 southernmost), centres rounded to 1e-4 degree.      *)
(***************************************************************************)
GridRows == 3
GridCols == 3

GridCells ==
    << [row |-> 0, col |-> 0, centerLat |-> 480449, centerLon |-> 114672],
       [row |-> 0, col |-> 1, centerLat |-> 480449, centerLon |-> 116016],
       [row |-> 0, col |-> 2, centerLat |-> 480449, centerLon |-> 117359],
       [row |-> 1, col |-> 0, centerLat |-> 481347, centerLon |-> 114673],
       [row |-> 1, col |-> 1, centerLat |-> 481347, centerLon |-> 116019],
       [row |-> 1, col |-> 2, centerLat |-> 481347, centerLon |-> 117365],
       [row |-> 2, col |-> 0, centerLat |-> 482246, centerLon |-> 114674],
       [row |-> 2, col |-> 1, centerLat |-> 482246, centerLon |-> 116023],
       [row |-> 2, col |-> 2, centerLat |-> 482246, centerLon |-> 117371] >>

\* Places a vote can be cast from: Munich centre (the spec's literal vote
\* position) and a point 19.5 km due west of the centre of cell (1,0).
HomePos == [lat |-> 481370, lon |-> 115753]
WestPos == [lat |-> 481347, lon |-> 112047]
VotePositions == {HomePos, WestPos}

\* haversineDistanceKm(cell centre, vote position) in metres, evaluated with
\* the code's formula (EARTH_RADIUS_KM = 6371) for every cell of GridCells
\* (by index) and every vote position.
HaversineTable ==
    [p \in VotePositions |->
        IF p = HomePos
        THEN <<13013, 10426, 15721,  8019,  1990, 11965, 12605,  9944, 15453>>
        ELSE <<21905, 31125, 40698, 19487, 29476, 39465, 21893, 31129, 40720>>]

CellIndexOf(lat, lon) ==
    CHOOSE i \in 1..Len(GridCells) :
        GridCells[i].centerLat = lat /\ GridCells[i].centerLon = lon

haversineDistanceM(lat1, lon1, lat2, lon2) ==
    HaversineTable[[lat |-> lat2, lon |-> lon2]][CellIndexOf(lat1, lon1)]

(***************************************************************************)
(* Grid enumeration: precomputeGrid (domain/geo.ts).  A GridSpec carries   *)
(* its bounds in 1e-4 degree and cellSizeMeters in metres.                 *)
(*   dLat    = cellSizeMeters / METERS_PER_DEG_LAT            (degrees)    *)
(*   rows    = floor((maxLat - minLat) / dLat)                             *)
(*   dLon    = cellSizeMeters / (METERS_PER_DEG_LAT * cos(centerLat))      *)
(*   cols    = floor((maxLon - minLon) / dLon)                             *)
(* The quotients are formed in integers, the cosine is read from a table.  *)
(***************************************************************************)
METERS_PER_DEG_LAT == 111320

\* METERS_PER_DEG_LAT * Math.cos(lat * DEG_TO_RAD), rounded to a metre, at
\* the latitudes (1e-4 degree) the grids of the model meet.
MetersPerDegLon(lat) ==
    CASE lat = 480000 -> 74488
      [] lat = 480449 -> 74423
      [] lat = 481000 -> 74343
      [] lat = 481347 -> 74293
      [] lat = 481500 -> 74271
      [] lat = 482246 -> 74163

\* Math.floor(a / b) for b # 0.
FloorDiv(a, b) == IF b > 0 THEN a \div b ELSE (-a) \div (-b)

\* a / b rounded to the nearest unit (b > 0, a >= 0): the 1e-4 degree grid of
\* the model.
RoundDiv(a, b) == (2 * a + b) \div (2 * b)

\* The spec's literal grid and a second valid one (2 x 3 cells).
MunichSpec ==
    [minLat |-> 480000, maxLat |-> 483000, minLon |-> 114000, maxLon |-> 119000,
     cellSizeMeters |-> 10000]
LowSpec == [MunichSpec EXCEPT !.maxLat = 482000]
ValidSpecs == {MunichSpec, LowSpec}

\* Grid specs a caller must not send: an empty or inverted latitude range, an
\* empty longitude range, a zero and a negative cell size.
InvalidSpecs ==
    { [MunichSpec EXCEPT !.maxLat = 480000],
      [MunichSpec EXCEPT !.minLat = 483000, !.maxLat = 480000],
      [MunichSpec EXCEPT !.maxLon = 114000],
      [MunichSpec EXCEPT !.cellSizeMeters = 0],
      [MunichSpec EXCEPT !.cellSizeMeters = -10000] }

GridSpecs == ValidSpecs \cup InvalidSpecs

\* Lines 66-67 and 74 of precomputeGrid; lines 589-590 of findCellAt.
RowCenterLat(spec, r) ==
    spec.minLat + RoundDiv((2 * r + 1) * spec.cellSizeMeters * 10000, 2 * METERS_PER_DEG_LAT)

ColCenterLon(spec, cellLat, c) ==
    spec.minLon + RoundDiv((2 * c + 1) * spec.cellSizeMeters * 10000,
                           2 * MetersPerDegLon(cellLat))

\* Lines 54-80.  With cellSizeMeters = 0 (and a non-empty latitude range)
\* dLat is 0, rows is Infinity and the loop of lines 65-77 never ends:
\* `diverges`.
precomputeGrid(spec) ==
    IF spec.cellSizeMeters = 0
    THEN [diverges |-> TRUE, rows |-> 0, cols |-> 0, cells |-> <<>>]
    ELSE LET nRows == FloorDiv((spec.maxLat - spec.minLat) * METERS_PER_DEG_LAT,
                               spec.cellSizeMeters * 10000)
             centerLat == (spec.minLat + spec.maxLat) \div 2
             nCols == FloorDiv((spec.maxLon - spec.minLon) * MetersPerDegLon(centerLat),
                               spec.cellSizeMeters * 10000)
             cell(k) == LET r == (k - 1) \div nCols
                            c == (k - 1) % nCols
                            cellLat == RowCenterLat(spec, r)
                        IN [row |-> r, col |-> c, centerLat |-> cellLat,
                            centerLon |-> ColCenterLon(spec, cellLat, c)]
         IN [diverges |-> FALSE, rows |-> nRows, cols |-> nCols,
             cells |-> IF nRows > 0 /\ nCols > 0
                       THEN AsArray([k \in 1..(nRows * nCols) |-> cell(k)], nRows * nCols)
                       ELSE <<>>]

(***************************************************************************)
(* The bounding-box prefilter of computeDominance.                         *)
(*   radiusDegLat = maxRadius / 111.32                                     *)
(*   radiusDegLon = maxRadius / (111.32 * cos(45 deg))  = maxRadius/78.715 *)
(* |d| > radiusDeg is decided by cross-multiplication in integers.         *)
(***************************************************************************)
KmPerDegLatX100 == 11132
KmPerDegLon45X1000 == 78715

BoxRejects(vlat, vlon, cell, maxRadius) ==
    \/ Abs(vlat - cell.centerLat) * KmPerDegLatX100 > maxRadius * 1000000
    \/ Abs(vlon - cell.centerLon) * KmPerDegLon45X1000 > maxRadius * 10000000

RECURSIVE MaxRadiusFrom(_, _, _)
MaxRadiusFrom(wvs, i, acc) ==
    IF i > Len(wvs) THEN acc
    ELSE MaxRadiusFrom(wvs, i + 1, IF wvs[i].radiusKm > acc THEN wvs[i].radiusKm ELSE acc)

MaxRadius(nominal, wvs) == MaxRadiusFrom(wvs, 1, nominal)

(***************************************************************************)
(* The per-cell Map<string, number>: a sequence of [beerId, w] entries in  *)
(* insertion order (the iteration order of a JavaScript Map).              *)
(***************************************************************************)
MapHas(m, k) == \E i \in 1..Len(m) : m[i].beerId = k

MapGet(m, k) ==
    IF MapHas(m, k) THEN m[CHOOSE i \in 1..Len(m) : m[i].beerId = k].w ELSE 0

MapSet(m, k, w) ==
    IF MapHas(m, k)
    THEN AsArray([i \in 1..Len(m) |->
                     IF m[i].beerId = k THEN [beerId |-> k, w |-> w] ELSE m[i]], Len(m))
    ELSE Append(m, [beerId |-> k, w |-> w])

FlatWeight == 4000         \* weight 1 of a flat vote
MarginEpsilon == 4         \* the 0.001 threshold of the margin

\* Lines 51-71: the flat votes, gated by the nominal radius.
RECURSIVE AccumulateFlat(_, _, _, _, _, _)
AccumulateFlat(cell, vs, nominal, maxRadius, v, acc) ==
    IF v > Len(vs) THEN acc
    ELSE LET vote == vs[v]
             skip == BoxRejects(vote.lat, vote.lon, cell, maxRadius)
             dist == haversineDistanceM(cell.centerLat, cell.centerLon, vote.lat, vote.lon)
             next == IF ~skip /\ dist <= nominal * 1000
                     THEN [weights |-> MapSet(acc.weights, vote.beerId,
                                              MapGet(acc.weights, vote.beerId) + FlatWeight),
                           totalWeight |-> acc.totalWeight + FlatWeight]
                     ELSE acc
         IN AccumulateFlat(cell, vs, nominal, maxRadius, v + 1, next)

\* Fault: the inclusion test uses the radius of the prefilter (the maximum).
WeightedInRange_MaxRadius(dist, wv, maxRadius) == dist <= maxRadius * 1000

\* Lines 74-96: the weighted votes, each gated by its own radius.
WeightedInRange(dist, wv, maxRadius) == dist <= wv.radiusKm * 1000

RECURSIVE AccumulateWeighted(_, _, _, _, _)
AccumulateWeighted(cell, wvs, maxRadius, v, acc) ==
    IF v > Len(wvs) THEN acc
    ELSE LET wv == wvs[v]
             skip == BoxRejects(wv.lat, wv.lon, cell, maxRadius)
             dist == haversineDistanceM(cell.centerLat, cell.centerLon, wv.lat, wv.lon)
             next == IF ~skip /\ WeightedInRange(dist, wv, maxRadius)
                     THEN [weights |-> MapSet(acc.weights, wv.beerId,
                                              MapGet(acc.weights, wv.beerId) + wv.weight),
                           totalWeight |-> acc.totalWeight + wv.weight]
                     ELSE acc
         IN AccumulateWeighted(cell, wvs, maxRadius, v + 1, next)

\* Fault: an untouched cell reported as fully decided.
ZeroResult_MarginOne(cell) ==
    [row |-> cell.row, col |-> cell.col,
     winnerBeerId |-> Null, winnerCount |-> 0, totalCount |-> 0,
     voteCounts |-> <<>>,
     runnerUpBeerId |-> Null, runnerUpCount |-> 0,
     margin |-> [num |-> 1, den |-> 1]]

ZeroResult(cell) ==
    [row |-> cell.row, col |-> cell.col,
     winnerBeerId |-> Null, winnerCount |-> 0, totalCount |-> 0,
     voteCounts |-> <<>>,
     runnerUpBeerId |-> Null, runnerUpCount |-> 0,
     margin |-> [num |-> 0, den |-> 1]]

\* Fault: a later label of equal weight displaces the winner.
ScanStep_LastWins(s, e) ==
    IF e.w >= s.winnerWeight
    THEN [winnerId |-> e.beerId, winnerWeight |-> e.w,
          runnerUpId |-> s.winnerId, runnerUpWeight |-> s.winnerWeight]
    ELSE IF e.w > s.runnerUpWeight
         THEN [s EXCEPT !.runnerUpId = e.beerId, !.runnerUpWeight = e.w]
         ELSE s

\* Fault: the order in which equal weights are met depends on the clock (a
\* map whose iteration order is not stable).
ScanStep_ClockTieBreak(s, e) ==
    IF getNow % 2 = 1 THEN ScanStep_LastWins(s, e)
    ELSE IF e.w > s.winnerWeight
         THEN [winnerId |-> e.beerId, winnerWeight |-> e.w,
               runnerUpId |-> s.winnerId, runnerUpWeight |-> s.winnerWeight]
         ELSE IF e.w > s.runnerUpWeight
              THEN [s EXCEPT !.runnerUpId = e.beerId, !.runnerUpWeight = e.w]
              ELSE s

\* Lines 117-128: one scan over the map for winner and runner-up.
ScanStep(s, e) ==
    IF e.w > s.winnerWeight
    THEN [winnerId |-> e.beerId, winnerWeight |-> e.w,
          runnerUpId |-> s.winnerId, runnerUpWeight |-> s.winnerWeight]
    ELSE IF e.w > s.runnerUpWeight
         THEN [s EXCEPT !.runnerUpId = e.beerId, !.runnerUpWeight = e.w]
         ELSE s

RECURSIVE ScanWeights(_, _, _)
ScanWeights(m, i, s) ==
    IF i > Len(m) THEN s ELSE ScanWeights(m, i + 1, ScanStep(s, m[i]))

\* Fault: the operands of the difference are swapped.
MarginOf_Swapped(winnerWeight, runnerUpWeight, totalWeight) ==
    IF totalWeight >= MarginEpsilon
    THEN [num |-> runnerUpWeight - winnerWeight, den |-> totalWeight]
    ELSE [num |-> 1, den |-> 1]

\* Fault: the near-zero fallback is missing.
MarginOf_NoFallback(winnerWeight, runnerUpWeight, totalWeight) ==
    [num |-> winnerWeight - runnerUpWeight, den |-> totalWeight]

\* Lines 130-132.
MarginOf(winnerWeight, runnerUpWeight, totalWeight) ==
    IF totalWeight >= MarginEpsilon
    THEN [num |-> winnerWeight - runnerUpWeight, den |-> totalWeight]
    ELSE [num |-> 1, den |-> 1]

\* Lines 45-146: the result of one cell.
CellResultOf(cell, vs, nominal, wvs, maxRadius) ==
    LET flat == AccumulateFlat(cell, vs, nominal, maxRadius, 1,
                               [weights |-> <<>>, totalWeight |-> 0])
        acc  == IF Len(wvs) > 0 THEN AccumulateWeighted(cell, wvs, maxRadius, 1, flat)
                ELSE flat
    IN IF acc.totalWeight = 0 THEN ZeroResult(cell)
       ELSE LET s == ScanWeights(acc.weights, 1,
                         [winnerId |-> Null, winnerWeight |-> 0,
                          runnerUpId |-> Null, runnerUpWeight |-> 0])
            IN [row |-> cell.row, col |-> cell.col,
                winnerBeerId |-> s.winnerId, winnerCount |-> s.winnerWeight,
                totalCount |-> acc.totalWeight,
                voteCounts |-> acc.weights,
                runnerUpBeerId |-> s.runnerUpId, runnerUpCount |-> s.runnerUpWeight,
                margin |-> MarginOf(s.winnerWeight, s.runnerUpWeight, acc.totalWeight)]

computeDominance(gcs, vs, nominal, wvs) ==
    IF Len(vs) = 0 /\ ~(Len(wvs) > 0)
    THEN AsArray([i \in 1..Len(gcs) |-> ZeroResult(gcs[i])], Len(gcs))
    ELSE LET maxRadius == MaxRadius(nominal, wvs)
         IN AsArray([i \in 1..Len(gcs) |->
                        CellResultOf(gcs[i], vs, nominal, wvs, maxRadius)],
                    Len(gcs))

(***************************************************************************)
(* Requests.  Weighted votes come in the (weight, radius) combinations     *)
(* below: a near-zero weight (0.00025) with the home radius, a check-in    *)
(* (DRINK_WEIGHT 0.75, 5 km) and a boosted home vote (2.0) with a wide     *)
(* radius of 50 km.                                                        *)
(***************************************************************************)
DRINK_WEIGHT == 3000       \* 0.75
HOME_BOOST_MAX == 8000     \* 2.0
DRINK_RADIUS_KM == 5
HOME_RADIUS_KM == 20

WeightedKinds ==
    { [weight |-> 1,              radiusKm |-> HOME_RADIUS_KM],
      [weight |-> DRINK_WEIGHT,   radiusKm |-> DRINK_RADIUS_KM],
      [weight |-> HOME_BOOST_MAX, radiusKm |-> 50] }

NominalRadii == {DRINK_RADIUS_KM, HOME_RADIUS_KM}

\* No worker request is under way, no lookup has been made.
NoRequest ==
    /\ gridSpec = MunichSpec
    /\ smoothingIterations = None
    /\ mergeIslandSize = None
    /\ gridCells = GridCells
    /\ outbox = <<>>
    /\ mockTime = Some(0)

NoLookup ==
    /\ regions = <<>>
    /\ query = <<>>
    /\ found = None

\* The real clock stands at 0, the store holds no drink vote, nothing was validated.
NoDrink ==
    /\ dateNow = 0
    /\ drinkVotes = <<>>
    /\ checkin = <<>>
    /\ validation = None
    /\ call = <<>>
    /\ ret = <<>>
    /\ users = <<>>
    /\ otrVotes = <<>>

Init ==
    /\ pc = "idle"
    /\ votes = <<>>
    /\ weightedVotes = <<>>
    /\ radiusKm \in NominalRadii
    /\ cells = <<>>
    /\ rows = GridRows
    /\ cols = GridCols
    /\ prevWinners = <<>>
    /\ passArg = 0
    /\ NoRequest
    /\ NoLookup
    /\ NoDrink

\* The caller adds a flat vote to the snapshot it will send.
AddVote ==
    /\ pc = "idle"
    /\ Len(votes) + Len(weightedVotes) < MaxVotes
    /\ \E p \in VotePositions, b \in BeerIds :
          votes' = Append(votes, [lat |-> p.lat, lon |-> p.lon, beerId |-> b])
    /\ UNCHANGED <<pc, weightedVotes, radiusKm, cells, rows, cols, prevWinners, passArg, workerVars, lookupVars, drinkVars>>

\* The caller adds a weighted vote to the snapshot it will send.
AddWeightedVote ==
    /\ pc = "idle"
    /\ Len(votes) + Len(weightedVotes) < MaxVotes
    /\ \E p \in VotePositions, b \in BeerIds, k \in WeightedKinds :
          weightedVotes' = Append(weightedVotes,
              [lat |-> p.lat, lon |-> p.lon, beerId |-> b,
               weight |-> k.weight, radiusKm |-> k.radiusKm])
    /\ UNCHANGED <<pc, votes, radiusKm, cells, rows, cols, prevWinners, passArg, workerVars, lookupVars, drinkVars>>

\* The worker runs computeDominance on the snapshot.
ComputeDominance ==
    /\ pc = "idle"
    /\ cells' = computeDominance(GridCells, votes, radiusKm, weightedVotes)
    /\ pc' = "computed"
    /\ UNCHANGED <<votes, weightedVotes, radiusKm, rows, cols, prevWinners, passArg, workerVars, lookupVars, drinkVars>>

Next == AddVote \/ AddWeightedVote \/ ComputeDominance

Spec == Init /\ [][Next]_vars

(***************************************************************************)
(* Post-processing passes.  The flat grid of the code (index row*cols+col, *)
(* 0-based) is a sequence indexed by row*cols+col+1.                       *)
(***************************************************************************)
RECURSIVE BuildGridFrom(_, _, _, _)
BuildGridFrom(cs, nCols, k, grid) ==
    IF k > Len(cs) THEN grid
    ELSE BuildGridFrom(cs, nCols, k + 1,
            [grid EXCEPT ![cs[k].row * nCols + cs[k].col + 1] = cs[k].winnerBeerId])

\* Lines 163-166 and 227-230.
BuildGrid(cs, nRows, nCols) ==
    BuildGridFrom(cs, nCols, 1, AsArray([i \in 1..(nRows * nCols) |-> Null], nRows * nCols))

\* Fault: the write-back also sets winnerCount to the new winner's weight.
WriteBack_RecomputesCounts(cs, nCols, grid) ==
    AsArray([k \in 1..Len(cs) |->
                LET b == grid[cs[k].row * nCols + cs[k].col + 1]
                IN [cs[k] EXCEPT !.winnerBeerId = b,
                                 !.winnerCount = MapGet(cs[k].voteCounts, b)]],
            Len(cs))

\* Lines 210-212 and 307-309.
WriteBack(cs, nCols, grid) ==
    AsArray([k \in 1..Len(cs) |->
                [cs[k] EXCEPT !.winnerBeerId = grid[cs[k].row * nCols + cs[k].col + 1]]],
            Len(cs))

\* Fault: the cell itself is left out of its neighbourhood.
CountsSelf_Excluded(dr, dc) == ~(dr = 0 /\ dc = 0)

\* Lines 181-182: the offsets (-1..1, -1..1) all take part, (0,0) included.
CountsSelf(dr, dc) == TRUE

\* Lines 180-191: the neighbour counts of cell (r, c), a Map filled in the
\* order dr = -1..1, dc = -1..1 (k = 0..8 enumerates the offsets).
RECURSIVE NeighborCounts(_, _, _, _, _, _, _)
NeighborCounts(grid, nRows, nCols, r, c, k, m) ==
    IF k > 8 THEN m
    ELSE LET dr == (k \div 3) - 1
             dc == (k % 3) - 1
             nr == r + dr
             nc == c + dc
             inGrid == ~(nr < 0 \/ nr >= nRows \/ nc < 0 \/ nc >= nCols)
             nBeer == IF inGrid THEN grid[nr * nCols + nc + 1] ELSE Null
             m2 == IF inGrid /\ CountsSelf(dr, dc) /\ nBeer # Null
                   THEN MapSet(m, nBeer, MapGet(m, nBeer) + 1)
                   ELSE m
         IN NeighborCounts(grid, nRows, nCols, r, c, k + 1, m2)

\* Lines 193-200 and 290-297: the first entry with the largest count.
RECURSIVE BestOf(_, _, _, _)
BestOf(m, i, best, bestCount) ==
    IF i > Len(m) THEN best
    ELSE IF m[i].w > bestCount
         THEN BestOf(m, i + 1, m[i].beerId, m[i].w)
         ELSE BestOf(m, i + 1, best, bestCount)

\* Fault: there is no second buffer; every cell is rewritten in the grid the
\* cells after it read.
RECURSIVE SmoothRound_InPlace_From(_, _, _, _)
SmoothRound_InPlace_From(grid, nRows, nCols, idx1) ==
    IF idx1 > nRows * nCols THEN grid
    ELSE LET r == (idx1 - 1) \div nCols
             c == (idx1 - 1) % nCols
             current == grid[idx1]
             best == IF current = Null THEN Null
                     ELSE BestOf(NeighborCounts(grid, nRows, nCols, r, c, 0, <<>>),
                                 1, current, 0)
         IN SmoothRound_InPlace_From([grid EXCEPT ![idx1] = best], nRows, nCols, idx1 + 1)

SmoothRound_InPlace(grid, nRows, nCols) == SmoothRound_InPlace_From(grid, nRows, nCols, 1)

\* Fault: a null cell is not skipped; it takes the majority label around it.
SmoothRound_FillsNull(grid, nRows, nCols) ==
    LET buf == [idx1 \in 1..(nRows * nCols) |->
                  LET r == (idx1 - 1) \div nCols
                      c == (idx1 - 1) % nCols
                  IN BestOf(NeighborCounts(grid, nRows, nCols, r, c, 0, <<>>),
                            1, grid[idx1], 0)]
    IN AsArray(buf, nRows * nCols)

\* Lines 171-207: one iteration, computed into buf from the unchanged grid.
SmoothRound(grid, nRows, nCols) ==
    LET buf == [idx1 \in 1..(nRows * nCols) |->
                  LET r == (idx1 - 1) \div nCols
                      c == (idx1 - 1) % nCols
                      current == grid[idx1]
                  IN IF current = Null THEN Null
                     ELSE BestOf(NeighborCounts(grid, nRows, nCols, r, c, 0, <<>>),
                                 1, current, 0)]
    IN AsArray(buf, nRows * nCols)   \* buf is complete before it is copied to grid

\* Line 170: for (iter = 0; iter < iterations; iter++).
RECURSIVE SmoothRounds(_, _, _, _, _)
SmoothRounds(grid, nRows, nCols, iter, iterations) ==
    IF ~(iter < iterations) THEN grid
    ELSE SmoothRounds(SmoothRound(grid, nRows, nCols), nRows, nCols, iter + 1, iterations)

\* Fault: no early return and the loop body runs before its test.
smoothWinnerGrid_DoWhile(cs, nRows, nCols, iterations) ==
    WriteBack(cs, nCols,
        SmoothRounds(SmoothRound(BuildGrid(cs, nRows, nCols), nRows, nCols),
                     nRows, nCols, 1, iterations))

\* Lines 155-213.
smoothWinnerGrid(cs, nRows, nCols, iterations) ==
    IF iterations <= 0 THEN cs
    ELSE WriteBack(cs, nCols,
            SmoothRounds(BuildGrid(cs, nRows, nCols), nRows, nCols, 0, iterations))

\* Lines 254-259 and 275-280: up, down, left, right; -1 where off the grid
\* (0-based indices).
Neighbors4(ci, nRows, nCols) ==
    LET cr == ci \div nCols
        cc == ci % nCols
    IN << IF cr > 0 THEN (cr - 1) * nCols + cc ELSE -1,
          IF cr < nRows - 1 THEN (cr + 1) * nCols + cc ELSE -1,
          IF cc > 0 THEN cr * nCols + (cc - 1) ELSE -1,
          IF cc < nCols - 1 THEN cr * nCols + (cc + 1) ELSE -1 >>

\* Lines 261-266: the unvisited same-label neighbours are marked and pushed.
RECURSIVE PushNeighbors(_, _, _, _, _, _)
PushNeighbors(grid, beerId, ns, j, visited, queue) ==
    IF j > Len(ns) THEN [visited |-> visited, queue |-> queue]
    ELSE LET ni == ns[j]
         IN IF ni < 0 \/ visited[ni + 1] = 1 \/ grid[ni + 1] # beerId
            THEN PushNeighbors(grid, beerId, ns, j + 1, visited, queue)
            ELSE PushNeighbors(grid, beerId, ns, j + 1,
                               [visited EXCEPT ![ni + 1] = 1], Append(queue, ni))

\* Lines 248-267: the flood fill; queue.pop() takes the last element.
RECURSIVE FloodFill(_, _, _, _, _, _, _)
FloodFill(grid, nRows, nCols, beerId, visited, queue, regionCells) ==
    IF Len(queue) = 0 THEN [visited |-> visited, regionCells |-> regionCells]
    ELSE LET ci == queue[Len(queue)]
             rest == SubSeq(queue, 1, Len(queue) - 1)
             p == PushNeighbors(grid, beerId, Neighbors4(ci, nRows, nCols), 1, visited, rest)
         IN FloodFill(grid, nRows, nCols, beerId, p.visited, p.queue,
                      Append(regionCells, ci))

\* Lines 281-287: the neighbours of one region cell that carry another label.
RECURSIVE CountNeighborsOf(_, _, _, _, _)
CountNeighborsOf(grid, beerId, ns, j, m) ==
    IF j > Len(ns) THEN m
    ELSE LET ni == ns[j]
             nb == IF ni < 0 THEN Null ELSE grid[ni + 1]
         IN IF ni >= 0 /\ nb # Null /\ nb # beerId
            THEN CountNeighborsOf(grid, beerId, ns, j + 1, MapSet(m, nb, MapGet(m, nb) + 1))
            ELSE CountNeighborsOf(grid, beerId, ns, j + 1, m)

\* Lines 271-288.
RECURSIVE NeighborBeerCounts(_, _, _, _, _, _, _)
NeighborBeerCounts(grid, nRows, nCols, beerId, regionCells, k, m) ==
    IF k > Len(regionCells) THEN m
    ELSE NeighborBeerCounts(grid, nRows, nCols, beerId, regionCells, k + 1,
            CountNeighborsOf(grid, beerId, Neighbors4(regionCells[k], nRows, nCols), 1, m))

\* Fault: a region of exactly minSize cells counts as small.
RegionIsKept_OffByOne(size, minSize) == size > minSize

\* Fault: a region one cell short of minSize is kept as well.
RegionIsKept_OneShort(size, minSize) == size >= minSize - 1

\* Line 269: if (regionCells.length >= minSize) continue.
RegionIsKept(size, minSize) == size >= minSize

\* Fault: only the first cell of the region is rewritten.
Reassign_FirstCellOnly(grid, regionCells, replacementBeer) ==
    AsArray([i \in 1..Len(grid) |->
                IF regionCells[1] + 1 = i THEN replacementBeer ELSE grid[i]], Len(grid))

\* Lines 299-303.
Reassign(grid, regionCells, replacementBeer) ==
    AsArray([i \in 1..Len(grid) |->
                IF \E k \in 1..Len(regionCells) : regionCells[k] + 1 = i
                THEN replacementBeer ELSE grid[i]], Len(grid))

\* Lines 234-305: the scan over all cells, on the grid it rewrites.
RECURSIVE MergeScan(_, _, _, _, _, _)
MergeScan(grid, visited, nRows, nCols, minSize, idx) ==
    IF idx >= nRows * nCols THEN grid
    ELSE IF visited[idx + 1] = 1
         THEN MergeScan(grid, visited, nRows, nCols, minSize, idx + 1)
         ELSE LET beerId == grid[idx + 1]
                  marked == [visited EXCEPT ![idx + 1] = 1]
              IN IF beerId = Null
                 THEN MergeScan(grid, marked, nRows, nCols, minSize, idx + 1)
                 ELSE LET f == FloodFill(grid, nRows, nCols, beerId, marked, <<idx>>, <<>>)
                          counts == NeighborBeerCounts(grid, nRows, nCols, beerId,
                                                       f.regionCells, 1, <<>>)
                          replacementBeer == BestOf(counts, 1, Null, 0)
                      IN IF RegionIsKept(Len(f.regionCells), minSize)
                            \/ replacementBeer = Null
                         THEN MergeScan(grid, f.visited, nRows, nCols, minSize, idx + 1)
                         ELSE MergeScan(Reassign(grid, f.regionCells, replacementBeer),
                                        f.visited, nRows, nCols, minSize, idx + 1)

\* Lines 219-310.
mergeSmallIslands(cs, nRows, nCols, minSize) ==
    IF minSize <= 1 THEN cs
    ELSE WriteBack(cs, nCols,
            MergeScan(BuildGrid(cs, nRows, nCols),
                      AsArray([i \in 1..(nRows * nCols) |-> 0], nRows * nCols),
                      nRows, nCols, minSize, 0))

(***************************************************************************)
(* The passes on an arbitrary winner grid.  Every cell of the 3 x 3 grid   *)
(* is null or carries a label; the other fields are those of a cell one    *)
(* flat vote reached (or of the zero result).  The passes treat labels     *)
(* alike, so the grids are taken up to renaming: labels appear in the      *)
(* order augustiner, paulaner, hofbraeu when the grid is read row-major.   *)
(***************************************************************************)
LabelOrder == <<"augustiner", "paulaner", "hofbraeu">>

\* The grids of n further cells when the first `used` labels are in use.
RECURSIVE OrderedGrids(_, _)
OrderedGrids(n, used) ==
    IF n = 0 THEN {<<>>}
    ELSE LET same == OrderedGrids(n - 1, used)
             more == IF used < Len(LabelOrder) THEN OrderedGrids(n - 1, used + 1) ELSE {}
         IN {<<Null>> \o t : t \in same}
            \cup {<<LabelOrder[k]>> \o t : k \in 1..used, t \in same}
            \cup {<<LabelOrder[Min(used + 1, Len(LabelOrder))]>> \o t : t \in more}

CellWithWinner(cell, b) ==
    IF b = Null THEN ZeroResult(cell)
    ELSE [row |-> cell.row, col |-> cell.col,
          winnerBeerId |-> b, winnerCount |-> FlatWeight, totalCount |-> FlatWeight,
          voteCounts |-> <<[beerId |-> b, w |-> FlatWeight]>>,
          runnerUpBeerId |-> Null, runnerUpCount |-> 0,
          margin |-> [num |-> FlatWeight, den |-> FlatWeight]]

WinnersOf(cs) == AsArray([k \in 1..Len(cs) |-> cs[k].winnerBeerId], Len(cs))

Iterations == (-1)..MaxIterations
MinSizes == 0..MaxMinSize

InitGrid ==
    /\ pc = "computed"
    /\ votes = <<>>
    /\ weightedVotes = <<>>
    /\ radiusKm = HOME_RADIUS_KM
    /\ rows = GridRows
    /\ cols = GridCols
    /\ \E g \in OrderedGrids(GridRows * GridCols, 0) :
          cells = AsArray([k \in 1..Len(GridCells) |-> CellWithWinner(GridCells[k], g[k])],
                          Len(GridCells))
    /\ prevWinners = <<>>
    /\ passArg = 0
    /\ NoRequest
    /\ NoLookup
    /\ NoDrink

SmoothWinnerGrid ==
    /\ pc = "computed"
    /\ \E iterations \in Iterations :
          /\ cells' = smoothWinnerGrid(cells, rows, cols, iterations)
          /\ passArg' = iterations
    /\ prevWinners' = WinnersOf(cells)
    /\ pc' = "smoothed"
    /\ UNCHANGED <<votes, weightedVotes, radiusKm, rows, cols, workerVars, lookupVars, drinkVars>>

MergeSmallIslands ==
    /\ pc = "computed"
    /\ \E minSize \in MinSizes :
          /\ cells' = mergeSmallIslands(cells, rows, cols, minSize)
          /\ passArg' = minSize
    /\ prevWinners' = WinnersOf(cells)
    /\ pc' = "merged"
    /\ UNCHANGED <<votes, weightedVotes, radiusKm, rows, cols, workerVars, lookupVars, drinkVars>>

NextGrid == SmoothWinnerGrid \/ MergeSmallIslands

SpecGrid == InitGrid /\ [][NextGrid]_vars

(***************************************************************************)
(* The two passes one after the other, as the worker runs them, on an      *)
(* arbitrary winner grid (SpecPasses): prevWinners keeps the labels the    *)
(* grid had before the smoothing.                                           *)
(***************************************************************************)
\* workers/dominanceWorker.ts line 13: the merge runs on the smoothed cells.
MergeSmoothed ==
    /\ pc = "smoothed"
    /\ \E minSize \in MinSizes :
          /\ cells' = mergeSmallIslands(cells, rows, cols, minSize)
          /\ passArg' = minSize
    /\ pc' = "merged"
    /\ UNCHANGED <<votes, weightedVotes, radiusKm, rows, cols, prevWinners,
                   workerVars, lookupVars, drinkVars>>

NextPasses == SmoothWinnerGrid \/ MergeSmoothed

SpecPasses == InitGrid /\ [][NextPasses]_vars

(***************************************************************************)
(* The dominance worker (workers/dominanceWorker.ts).  A request carries   *)
(* votes, weightedVotes, gridSpec, radiusKm, smoothingIterations and       *)
(* mergeIslandSize.  The handler runs to completion; its statements are    *)
(* the steps below, pc naming the statement reached.  All votes of a       *)
(* request are cast from HomePos; the labels of a request are taken up to  *)
(* renaming, in the order augustiner, paulaner, hofbraeu of first use.     *)
(***************************************************************************)
MaxRequestVotes == 2   \* flat + weighted votes in one worker request
MaxMockTime == 1       \* how often the mock clock is advanced
MaxRuns == 2           \* how often the same request is posted

LabelLists(n) == {l \in OrderedGrids(n, 0) : \A k \in 1..n : l[k] # Null}

RequestsOf(nf, nw) ==
    { [votes |-> AsArray([k \in 1..nf |->
                            [lat |-> HomePos.lat, lon |-> HomePos.lon, beerId |-> l[k]]], nf),
       weightedVotes |-> AsArray([k \in 1..nw |->
                            [lat |-> HomePos.lat, lon |-> HomePos.lon, beerId |-> l[nf + k],
                             weight |-> kinds[k].weight, radiusKm |-> kinds[k].radiusKm]], nw)]
      : l \in LabelLists(nf + nw), kinds \in [1..nw -> WeightedKinds] }

Requests ==
    UNION { UNION { RequestsOf(nf, nw) : nw \in 0..(MaxRequestVotes - nf) }
            : nf \in 0..MaxRequestVotes }

SmoothingChoices == {None, Some(0), Some(1)}
MergeChoices == {None, Some(1), Some(2)}

\* x ?? d
OrDefault(x, d) == IF x = None THEN d ELSE x[1]

\* new Array(n) and new Uint8Array(n) throw a RangeError for a negative n.
InvalidArrayLength(n) == n < 0

\* App.tsx lines 346-353: the request is posted to the worker.
InitWorker ==
    /\ pc = "idle"
    /\ \E req \in Requests :
          /\ votes = req.votes
          /\ weightedVotes = req.weightedVotes
    /\ radiusKm \in NominalRadii
    /\ gridSpec \in GridSpecs
    /\ smoothingIterations \in SmoothingChoices
    /\ mergeIslandSize \in MergeChoices
    /\ cells = <<>>
    /\ rows = 0
    /\ cols = 0
    /\ gridCells = <<>>
    /\ outbox = <<>>
    /\ mockTime = Some(0)
    /\ prevWinners = <<>>
    /\ passArg = 0
    /\ NoLookup
    /\ NoDrink

\* Line 8.
WorkerPrecomputeGrid ==
    /\ pc = "idle"
    /\ LET g == precomputeGrid(gridSpec)
       IN IF g.diverges
          THEN /\ pc' = "looping"
               /\ UNCHANGED <<rows, cols, gridCells>>
          ELSE /\ pc' = "enumerated"
               /\ rows' = g.rows
               /\ cols' = g.cols
               /\ gridCells' = g.cells
    /\ UNCHANGED <<votes, weightedVotes, radiusKm, cells, prevWinners, passArg,
                   gridSpec, smoothingIterations, mergeIslandSize, outbox, mockTime,
                   lookupVars, drinkVars>>

\* Line 9.
WorkerComputeDominance ==
    /\ pc = "enumerated"
    /\ cells' = computeDominance(gridCells, votes, radiusKm, weightedVotes)
    /\ pc' = "computed"
    /\ UNCHANGED <<votes, weightedVotes, radiusKm, rows, cols, prevWinners, passArg,
                   workerVars, lookupVars, drinkVars>>

\* Line 12.
WorkerSmooth ==
    /\ pc = "computed"
    /\ LET iterations == OrDefault(smoothingIterations, 2)
       IN IF iterations > 0 /\ InvalidArrayLength(rows * cols)
          THEN /\ pc' = "error"
               /\ UNCHANGED cells
          ELSE /\ pc' = "smoothed"
               /\ cells' = smoothWinnerGrid(cells, rows, cols, iterations)
    /\ UNCHANGED <<votes, weightedVotes, radiusKm, rows, cols, prevWinners, passArg,
                   workerVars, lookupVars, drinkVars>>

\* Fault: the islands are merged on the grid computeDominance produced, the
\* smoothing is lost.
WorkerMerge_OnRawGrid ==
    /\ pc = "smoothed"
    /\ LET minSize == OrDefault(mergeIslandSize, 8)
       IN IF minSize > 1 /\ InvalidArrayLength(rows * cols)
          THEN /\ pc' = "error"
               /\ UNCHANGED cells
          ELSE /\ pc' = "merged"
               /\ cells' = mergeSmallIslands(
                              computeDominance(gridCells, votes, radiusKm, weightedVotes),
                              rows, cols, minSize)
    /\ UNCHANGED <<votes, weightedVotes, radiusKm, rows, cols, prevWinners, passArg,
                   workerVars, lookupVars, drinkVars>>

\* Line 13.
WorkerMerge ==
    /\ pc = "smoothed"
    /\ LET minSize == OrDefault(mergeIslandSize, 8)
       IN IF minSize > 1 /\ InvalidArrayLength(rows * cols)
          THEN /\ pc' = "error"
               /\ UNCHANGED cells
          ELSE /\ pc' = "merged"
               /\ cells' = mergeSmallIslands(cells, rows, cols, minSize)
    /\ UNCHANGED <<votes, weightedVotes, radiusKm, rows, cols, prevWinners, passArg,
                   workerVars, lookupVars, drinkVars>>

\* Lines 15-25.
WorkerPost ==
    /\ pc = "merged"
    /\ outbox' = Append(outbox,
          [type |-> "result",
           data |-> [rows |-> rows, cols |-> cols, cells |-> cells, gridSpec |-> gridSpec]])
    /\ pc' = "posted"
    /\ UNCHANGED <<votes, weightedVotes, radiusKm, cells, rows, cols, prevWinners, passArg,
                   gridSpec, smoothingIterations, mergeIslandSize, gridCells, mockTime,
                   lookupVars, drinkVars>>

\* App.tsx lines 341-354: the effect runs again and posts the same request;
\* the handler starts with fresh locals.
PostAgain ==
    /\ pc = "posted"
    /\ Len(outbox) < MaxRuns
    /\ pc' = "idle"
    /\ cells' = <<>>
    /\ rows' = 0
    /\ cols' = 0
    /\ gridCells' = <<>>
    /\ UNCHANGED <<votes, weightedVotes, radiusKm, prevWinners, passArg,
                   gridSpec, smoothingIterations, mergeIslandSize, outbox, mockTime,
                   lookupVars, drinkVars>>

\* advanceMockTime (domain/clock.ts): the clock moves while the worker waits
\* for its next request.
AdvanceMockTime ==
    /\ pc = "posted"
    /\ getNow < MaxMockTime
    /\ mockTime' = advanceMockTime(1)
    /\ UNCHANGED <<pc, votes, weightedVotes, radiusKm, cells, rows, cols, prevWinners,
                   passArg, gridSpec, smoothingIterations, mergeIslandSize, gridCells,
                   outbox, lookupVars, drinkVars>>

(***************************************************************************)
(* Lookups on the latest result (App.tsx keeps it as dominanceData, null   *)
(* until the first result arrives): findCellAt (hooks/useQuests.ts),       *)
(* extractRegions and findRegionForCell (domain/regions.ts).               *)
(***************************************************************************)
\* App.tsx lines 119 and 302-306.
DominanceData == IF outbox = <<>> THEN None ELSE Some(outbox[Len(outbox)].data)

\* data.cells.find(c => c.row === row && c.col === col) ?? null
RECURSIVE FindCell(_, _, _, _)
FindCell(cs, row, col, k) ==
    IF k > Len(cs) THEN None
    ELSE IF cs[k].row = row /\ cs[k].col = col THEN Some(cs[k])
         ELSE FindCell(cs, row, col, k + 1)

\* Fault: the quotients are rounded to the nearest integer instead of floored.
findCellAt_Rounds(lat, lon, dataOrNull) ==
    IF dataOrNull = None THEN None
    ELSE LET data == dataOrNull[1]
             gs == data.gridSpec
             row == RoundDiv((lat - gs.minLat) * METERS_PER_DEG_LAT,
                             gs.cellSizeMeters * 10000)
         IN IF row < 0 \/ row >= data.rows THEN None
            ELSE LET cellLat == RowCenterLat(gs, row)
                     col == RoundDiv((lon - gs.minLon) * MetersPerDegLon(cellLat),
                                     gs.cellSizeMeters * 10000)
                 IN IF col < 0 \/ col >= data.cols THEN None
                    ELSE FindCell(data.cells, row, col, 1)

\* hooks/useQuests.ts lines 579-599.
findCellAt(lat, lon, dataOrNull) ==
    IF dataOrNull = None THEN None
    ELSE LET data == dataOrNull[1]
             gs == data.gridSpec
             row == FloorDiv((lat - gs.minLat) * METERS_PER_DEG_LAT,
                             gs.cellSizeMeters * 10000)
         IN IF row < 0 \/ row >= data.rows THEN None
            ELSE LET cellLat == RowCenterLat(gs, row)
                     col == FloorDiv((lon - gs.minLon) * MetersPerDegLon(cellLat),
                                     gs.cellSizeMeters * 10000)
                     idx == row * data.cols + col
                 IN IF col < 0 \/ col >= data.cols THEN None
                    ELSE IF /\ idx >= 0
                            /\ idx < Len(data.cells)
                            /\ data.cells[idx + 1].row = row
                            /\ data.cells[idx + 1].col = col
                         THEN Some(data.cells[idx + 1])
                         ELSE FindCell(data.cells, row, col, 1)

OutsidePoints ==
    { [lat |-> 479000, lon |-> 116000],     \* south of minLat
      [lat |-> 482800, lon |-> 116000],     \* north of the last row
      [lat |-> 481347, lon |-> 113000],     \* west of minLon
      [lat |-> 481347, lon |-> 118800] }    \* east of the last column

LookupPoints ==
    {[lat |-> GridCells[k].centerLat, lon |-> GridCells[k].centerLon] : k \in 1..Len(GridCells)}
    \cup OutsidePoints

\* unnamed/part_002 lines 213 and 290: a click on the map looks the cell up.
\* The lookup reads the result only, neither the clock nor the earlier runs,
\* so it is taken on the first result (or before it) with the clock at rest.
FindCellAt ==
    /\ \/ pc = "posted" /\ Len(outbox) = 1 /\ mockTime = Some(0)
       \/ pc = "idle" /\ outbox = <<>>
    /\ \E p \in LookupPoints :
          /\ query' = <<p.lat, p.lon>>
          /\ found' = findCellAt(p.lat, p.lon, DominanceData)
    /\ pc' = "located"
    /\ UNCHANGED <<votes, weightedVotes, radiusKm, cells, rows, cols, prevWinners, passArg,
                   workerVars, drinkVars, regions>>

NextWorker ==
    \/ WorkerPrecomputeGrid
    \/ WorkerComputeDominance
    \/ WorkerSmooth
    \/ WorkerMerge
    \/ WorkerPost
    \/ PostAgain
    \/ AdvanceMockTime
    \/ FindCellAt

SpecWorker == InitWorker /\ [][NextWorker]_vars

(***************************************************************************)
(* Regions: extractRegions and findRegionForCell (domain/regions.ts).      *)
(* Margins are fractions; their sum and mean are exact.  centroidLat and   *)
(* centroidLon of a Region are left out: no lookup reads them.             *)
(***************************************************************************)
RECURSIVE GCD(_, _)
GCD(a, b) == IF b = 0 THEN a ELSE GCD(b, a % b)

Reduced(f) ==
    LET g == GCD(Abs(f.num), f.den)
    IN [num |-> f.num \div g, den |-> f.den \div g]

AddFrac(a, b) == Reduced([num |-> a.num * b.den + b.num * a.den, den |-> a.den * b.den])

\* Lines 309-314 and 346: cellMap.get(ci), the last cell stored under ci.
RECURSIVE CellMapGet(_, _, _, _, _)
CellMapGet(cs, nCols, ci, k, acc) ==
    IF k > Len(cs) THEN acc
    ELSE CellMapGet(cs, nCols, ci, k + 1,
                    IF cs[k].row * nCols + cs[k].col = ci THEN Some(cs[k]) ELSE acc)

\* Lines 336-356: the sums of one region, its cells taken in the order the
\* flood fill pops them.
RECURSIVE RegionSums(_, _, _, _, _)
RegionSums(cs, nCols, regionCells, k, acc) ==
    IF k > Len(regionCells) THEN acc
    ELSE LET ci == regionCells[k]
             cr == ci \div nCols
             cc == ci % nCols
             cellData == CellMapGet(cs, nCols, ci, 1, None)
             a1 == [acc EXCEPT !.count = @ + 1,
                               !.minRow = IF cr < @ THEN cr ELSE @,
                               !.maxRow = IF cr > @ THEN cr ELSE @,
                               !.minCol = IF cc < @ THEN cc ELSE @,
                               !.maxCol = IF cc > @ THEN cc ELSE @]
             a2 == IF cellData = None THEN a1
                   ELSE LET d == cellData[1]
                        IN [a1 EXCEPT
                              !.marginSum = AddFrac(@, d.margin),
                              !.votesSum = @ + d.totalCount,
                              !.runnerUpCounts =
                                  IF d.runnerUpBeerId # Null
                                  THEN MapSet(@, d.runnerUpBeerId,
                                              MapGet(@, d.runnerUpBeerId) + 1)
                                  ELSE @]
         IN RegionSums(cs, nCols, regionCells, k + 1, a2)

\* Fault: avgMargin is the sum of the margins, not their mean.
RegionAt_SumNotMean(cs, grid, nRows, nCols, idx, regionCells) ==
    LET r == idx \div nCols
        c == idx % nCols
        a == RegionSums(cs, nCols, regionCells, 1,
                 [count |-> 0, minRow |-> r, maxRow |-> r, minCol |-> c, maxCol |-> c,
                  marginSum |-> [num |-> 0, den |-> 1], votesSum |-> 0,
                  runnerUpCounts |-> <<>>])
    IN [id |-> <<grid[idx + 1], a.minRow, a.minCol>>,
        beerId |-> grid[idx + 1],
        cellCount |-> a.count,
        boundingBox |-> [minRow |-> a.minRow, maxRow |-> a.maxRow,
                         minCol |-> a.minCol, maxCol |-> a.maxCol],
        avgMargin |-> IF a.count > 0
                      THEN Reduced([num |-> a.marginSum.num, den |-> a.marginSum.den])
                      ELSE [num |-> 1, den |-> 1],
        totalVotes |-> a.votesSum,
        runnerUpBeerId |-> BestOf(a.runnerUpCounts, 1, Null, 0)]

\* Lines 326-399: the Region flooded from cell idx = r * cols + c.
RegionAt(cs, grid, nRows, nCols, idx, regionCells) ==
    LET r == idx \div nCols
        c == idx % nCols
        a == RegionSums(cs, nCols, regionCells, 1,
                 [count |-> 0, minRow |-> r, maxRow |-> r, minCol |-> c, maxCol |-> c,
                  marginSum |-> [num |-> 0, den |-> 1], votesSum |-> 0,
                  runnerUpCounts |-> <<>>])
    IN [id |-> <<grid[idx + 1], a.minRow, a.minCol>>,
        beerId |-> grid[idx + 1],
        cellCount |-> a.count,
        boundingBox |-> [minRow |-> a.minRow, maxRow |-> a.maxRow,
                         minCol |-> a.minCol, maxCol |-> a.maxCol],
        avgMargin |-> IF a.count > 0
                      THEN Reduced([num |-> a.marginSum.num, den |-> a.marginSum.den * a.count])
                      ELSE [num |-> 1, den |-> 1],
        totalVotes |-> a.votesSum,
        runnerUpBeerId |-> BestOf(a.runnerUpCounts, 1, Null, 0)]

\* Lines 319-401: the scan; the flood fill of lines 334-371 is the one of
\* mergeSmallIslands (same neighbour order, same stack).
RECURSIVE RegionScan(_, _, _, _, _, _, _)
RegionScan(cs, grid, visited, nRows, nCols, idx, regs) ==
    IF idx >= nRows * nCols THEN regs
    ELSE IF visited[idx + 1] = 1
         THEN RegionScan(cs, grid, visited, nRows, nCols, idx + 1, regs)
         ELSE LET marked == [visited EXCEPT ![idx + 1] = 1]
              IN IF grid[idx + 1] = Null
                 THEN RegionScan(cs, grid, marked, nRows, nCols, idx + 1, regs)
                 ELSE LET f == FloodFill(grid, nRows, nCols, grid[idx + 1], marked,
                                         <<idx>>, <<>>)
                      IN RegionScan(cs, grid, f.visited, nRows, nCols, idx + 1,
                                    Append(regs, RegionAt(cs, grid, nRows, nCols, idx,
                                                          f.regionCells)))

\* Fault: the sort is ascending.
InsertByCellCount_Ascending(sorted, r) ==
    LET p == Cardinality({i \in 1..Len(sorted) : sorted[i].cellCount <= r.cellCount})
    IN SubSeq(sorted, 1, p) \o <<r>> \o SubSeq(sorted, p + 1, Len(sorted))

\* Line 404: regions.sort((a, b) => b.cellCount - a.cellCount), a stable
\* sort: r goes behind every region that is not smaller.
InsertByCellCount(sorted, r) ==
    LET p == Cardinality({i \in 1..Len(sorted) : sorted[i].cellCount >= r.cellCount})
    IN SubSeq(sorted, 1, p) \o <<r>> \o SubSeq(sorted, p + 1, Len(sorted))

RECURSIVE SortByCellCount(_, _, _)
SortByCellCount(regs, k, sorted) ==
    IF k > Len(regs) THEN sorted
    ELSE SortByCellCount(regs, k + 1, InsertByCellCount(sorted, regs[k]))

\* Lines 303-406.
extractRegions(data) ==
    LET n == data.rows * data.cols
        grid == BuildGrid(data.cells, data.rows, data.cols)
        found0 == RegionScan(data.cells, grid, AsArray([i \in 1..n |-> 0], n),
                             data.rows, data.cols, 0, <<>>)
    IN SortByCellCount(found0, 1, <<>>)

RegionMatches(r, beerId, row, col) ==
    /\ r.beerId = beerId
    /\ row >= r.boundingBox.minRow /\ row <= r.boundingBox.maxRow
    /\ col >= r.boundingBox.minCol /\ col <= r.boundingBox.maxCol

\* Fault: the last matching region is returned.
FirstMatch_Last(regs, beerId, row, col) ==
    LET hits == {k \in 1..Len(regs) : RegionMatches(regs[k], beerId, row, col)}
    IN IF hits = {} THEN None
       ELSE Some(regs[CHOOSE k \in hits : \A j \in hits : j <= k])

\* Lines 418-422: regions.find(...) ?? null.
FirstMatch(regs, beerId, row, col) ==
    LET hits == {k \in 1..Len(regs) : RegionMatches(regs[k], beerId, row, col)}
    IN IF hits = {} THEN None
       ELSE Some(regs[CHOOSE k \in hits : \A j \in hits : k <= j])

\* Lines 411-423.
findRegionForCell(row, col, regs, data) ==
    LET idx == row * data.cols + col
    IN IF idx < 0 \/ idx >= Len(data.cells) THEN None
       ELSE LET cell == data.cells[idx + 1]
            IN IF cell.winnerBeerId = Null THEN None
               ELSE FirstMatch(regs, cell.winnerBeerId, row, col)

(***************************************************************************)
(* Lookups on an arbitrary result.  The result covers the 3 x 3 grid of    *)
(* MunichSpec; every cell is null or carries one of two labels (grids up   *)
(* to renaming).  The k-th cell with a winner b saw, by k mod 3, one flat  *)
(* vote for b; two for b and one for the other label; or one for b and a   *)
(* check-in for the other label.  The cells without a winner are present   *)
(* (a dense result) or left out (a sparse one).                            *)
(***************************************************************************)
TwoLabelGrids ==
    {g \in OrderedGrids(GridRows * GridCols, 0) : \A k \in 1..Len(g) : g[k] # LabelOrder[3]}

OtherLabel(b) == IF b = LabelOrder[1] THEN LabelOrder[2] ELSE LabelOrder[1]

LookupCell(cell, b, k) ==
    IF b = Null THEN ZeroResult(cell)
    ELSE LET own == IF k % 3 = 2 THEN 2 * FlatWeight ELSE FlatWeight
             other == IF k % 3 = 1 THEN 0
                      ELSE IF k % 3 = 2 THEN FlatWeight ELSE DRINK_WEIGHT
         IN [row |-> cell.row, col |-> cell.col,
             winnerBeerId |-> b, winnerCount |-> own, totalCount |-> own + other,
             voteCounts |-> IF other = 0 THEN <<[beerId |-> b, w |-> own]>>
                            ELSE <<[beerId |-> b, w |-> own],
                                   [beerId |-> OtherLabel(b), w |-> other]>>,
             runnerUpBeerId |-> IF other = 0 THEN Null ELSE OtherLabel(b),
             runnerUpCount |-> other,
             margin |-> MarginOf(own, other, own + other)]

DenseCells(g) ==
    AsArray([k \in 1..Len(GridCells) |-> LookupCell(GridCells[k], g[k], k)], Len(GridCells))

\* The cells with no data left out.
SparseCells(g) == SelectSeq(DenseCells(g), LAMBDA c : c.winnerBeerId # Null)

RegionQueries ==
    {<<r, c>> : r \in 0..(GridRows - 1), c \in 0..(GridCols - 1)}
    \cup {<<GridRows, 0>>, <<0, GridCols>>, <<1, -1>>, <<-1, 1>>}

\* Either no result has arrived yet, or the latest result is a dense or a
\* sparse one.
InitLookup ==
    /\ votes = <<>>
    /\ weightedVotes = <<>>
    /\ radiusKm = HOME_RADIUS_KM
    /\ gridSpec = MunichSpec
    /\ smoothingIterations = None
    /\ mergeIslandSize = None
    /\ gridCells = GridCells
    /\ rows = GridRows
    /\ cols = GridCols
    /\ mockTime = Some(0)
    /\ prevWinners = <<>>
    /\ passArg = 0
    /\ NoLookup
    /\ NoDrink
    /\ \/ /\ pc = "idle"
          /\ cells = <<>>
          /\ outbox = <<>>
       \/ /\ pc = "posted"
          /\ \E g \in TwoLabelGrids : cells \in {DenseCells(g), SparseCells(g)}
          /\ outbox = << [type |-> "result",
                          data |-> [rows |-> rows, cols |-> cols, cells |-> cells,
                                    gridSpec |-> gridSpec]] >>

\* App.tsx lines 220-223.
ExtractRegions ==
    /\ pc = "posted"
    /\ DominanceData # None
    /\ regions' = extractRegions(DominanceData[1])
    /\ pc' = "extracted"
    /\ UNCHANGED <<votes, weightedVotes, radiusKm, cells, rows, cols, prevWinners, passArg,
                   workerVars, drinkVars, query, found>>

\* unnamed/part_002 lines 215 and 301.
FindRegionForCell ==
    /\ pc = "extracted"
    /\ \E q \in RegionQueries :
          /\ query' = q
          /\ found' = findRegionForCell(q[1], q[2], regions, DominanceData[1])
    /\ pc' = "regionFound"
    /\ UNCHANGED <<votes, weightedVotes, radiusKm, cells, rows, cols, prevWinners, passArg,
                   workerVars, drinkVars, regions>>

NextLookup == ExtractRegions \/ FindRegionForCell \/ FindCellAt

SpecLookup == InitLookup /\ [][NextLookup]_vars

(***************************************************************************)
(* Drink votes (check-ins): validateDrinkVote and getDailyDrinkCount       *)
(* (domain/drinkVoteRules.ts).  Times are milliseconds, as in the code.    *)
(***************************************************************************)
HOUR_MS == 60 * 60 * 1000
MIN_MS == 60 * 1000

\* GAME (config/constants.ts).
DRINK_TTL_HOURS == 24
DRINK_COOLDOWN_MIN == 15
DRINK_SAME_PLACE_BEER_WINDOW_H == 6
DRINK_DAILY_CAP == 12
DRINK_GPS_MAX_ACCURACY_M == 75

\* Count drink votes created in the last 24 hours (rolling window).
getDailyDrinkCount(vs) ==
    LET now == getNow
        dayAgo == now - 24 * HOUR_MS
    IN Len(SelectSeq(vs, LAMBDA v : v.createdAt > dayAgo))

Rejected(code) == [ok |-> FALSE, errorCode |-> code]
Accepted == [ok |-> TRUE, errorCode |-> "undefined"]

\* Fault: the cooldown is looked for among the votes of the same place only.
validateDrinkVote_CooldownPerPlace(existingVotes, placeKey, beerId, gpsAccuracyM) ==
    LET now == getNow
        active == SelectSeq(existingVotes, LAMBDA v : v.expiresAt > now)
        cooldownThreshold == now - DRINK_COOLDOWN_MIN * MIN_MS
        samePlaceBeerThreshold == now - DRINK_SAME_PLACE_BEER_WINDOW_H * HOUR_MS
    IN IF gpsAccuracyM > DRINK_GPS_MAX_ACCURACY_M THEN Rejected("gps_accuracy")
       ELSE IF \E k \in 1..Len(active) : /\ active[k].placeKey = placeKey
                                         /\ active[k].createdAt > cooldownThreshold
            THEN Rejected("cooldown")
       ELSE IF \E k \in 1..Len(active) : /\ active[k].placeKey = placeKey
                                         /\ active[k].beerId = beerId
                                         /\ active[k].createdAt > samePlaceBeerThreshold
            THEN Rejected("same_place_beer")
       ELSE IF getDailyDrinkCount(existingVotes) >= DRINK_DAILY_CAP
            THEN Rejected("daily_cap")
       ELSE Accepted

\* Fault: the same-place window blocks the place whatever the beer.
validateDrinkVote_PlaceOnly(existingVotes, placeKey, beerId, gpsAccuracyM) ==
    LET now == getNow
        active == SelectSeq(existingVotes, LAMBDA v : v.expiresAt > now)
        cooldownThreshold == now - DRINK_COOLDOWN_MIN * MIN_MS
        samePlaceBeerThreshold == now - DRINK_SAME_PLACE_BEER_WINDOW_H * HOUR_MS
    IN IF gpsAccuracyM > DRINK_GPS_MAX_ACCURACY_M THEN Rejected("gps_accuracy")
       ELSE IF \E k \in 1..Len(active) : active[k].createdAt > cooldownThreshold
            THEN Rejected("cooldown")
       ELSE IF \E k \in 1..Len(active) : /\ active[k].placeKey = placeKey
                                         /\ active[k].createdAt > samePlaceBeerThreshold
            THEN Rejected("same_place_beer")
       ELSE IF getDailyDrinkCount(existingVotes) >= DRINK_DAILY_CAP
            THEN Rejected("daily_cap")
       ELSE Accepted

\* Fault: the cap rejects only above DRINK_DAILY_CAP.
validateDrinkVote_CapOffByOne(existingVotes, placeKey, beerId, gpsAccuracyM) ==
    LET now == getNow
        active == SelectSeq(existingVotes, LAMBDA v : v.expiresAt > now)
        cooldownThreshold == now - DRINK_COOLDOWN_MIN * MIN_MS
        samePlaceBeerThreshold == now - DRINK_SAME_PLACE_BEER_WINDOW_H * HOUR_MS
    IN IF gpsAccuracyM > DRINK_GPS_MAX_ACCURACY_M THEN Rejected("gps_accuracy")
       ELSE IF \E k \in 1..Len(active) : active[k].createdAt > cooldownThreshold
            THEN Rejected("cooldown")
       ELSE IF \E k \in 1..Len(active) : /\ active[k].placeKey = placeKey
                                         /\ active[k].beerId = beerId
                                         /\ active[k].createdAt > samePlaceBeerThreshold
            THEN Rejected("same_place_beer")
       ELSE IF getDailyDrinkCount(existingVotes) > DRINK_DAILY_CAP
            THEN Rejected("daily_cap")
       ELSE Accepted

\* validateDrinkVote: GPS accuracy, cooldown, same place + beer, daily cap, in
\* this order; the first check that fails gives the errorCode.
validateDrinkVote(existingVotes, placeKey, beerId, gpsAccuracyM) ==
    LET now == getNow
        active == SelectSeq(existingVotes, LAMBDA v : v.expiresAt > now)
        cooldownThreshold == now - DRINK_COOLDOWN_MIN * MIN_MS
        samePlaceBeerThreshold == now - DRINK_SAME_PLACE_BEER_WINDOW_H * HOUR_MS
    IN IF gpsAccuracyM > DRINK_GPS_MAX_ACCURACY_M THEN Rejected("gps_accuracy")
       ELSE IF \E k \in 1..Len(active) : active[k].createdAt > cooldownThreshold
            THEN Rejected("cooldown")
       ELSE IF \E k \in 1..Len(active) : /\ active[k].placeKey = placeKey
                                         /\ active[k].beerId = beerId
                                         /\ active[k].createdAt > samePlaceBeerThreshold
            THEN Rejected("same_place_beer")
       ELSE IF getDailyDrinkCount(existingVotes) >= DRINK_DAILY_CAP
            THEN Rejected("daily_cap")
       ELSE Accepted

(***************************************************************************)
(* SpecDrink: validateDrinkVote called once on a list of existing votes.   *)
(* The list is a block of votes half an hour apart at a place and with a   *)
(* beer no candidate has (as the cap tests build them), after up to        *)
(* MaxFreeVotes votes whose age, expiry, place and beer vary.              *)
(***************************************************************************)
MaxFreeVotes == 2

\* The clock reading the calls are made at.
Now0 == 48 * HOUR_MS

PlaceKeys == <<"48.1368_11.5751", "48.1386_11.5751">>
DrinkBeers == <<"augustiner", "paulaner">>

\* <<age in ms, expiry>> of a free vote; expiry "ttl" is createdAt + 24 h (a
\* vote the check-in handler made), "expired" is the clock reading itself,
\* "far" is 24 h ahead of it.
AgeExpiry ==
    << <<5 * MIN_MS, "ttl">>, <<5 * MIN_MS, "expired">>,
       <<15 * MIN_MS - 1, "ttl">>, <<15 * MIN_MS, "ttl">>,
       <<3 * HOUR_MS, "ttl">>, <<3 * HOUR_MS, "expired">>,
       <<6 * HOUR_MS - 1, "ttl">>, <<6 * HOUR_MS, "ttl">>,
       <<24 * HOUR_MS - 1, "ttl">>, <<24 * HOUR_MS - 1, "far">>,
       <<24 * HOUR_MS, "far">>, <<25 * HOUR_MS, "far">> >>

\* The free vote with code c: kind, place and beer are the digits of c.
FreeVote(c) ==
    LET kind == AgeExpiry[(c \div 4) + 1]
        createdAt == Now0 - kind[1]
    IN [beerId |-> DrinkBeers[(c % 2) + 1],
        placeKey |-> PlaceKeys[((c \div 2) % 2) + 1],
        createdAt |-> createdAt,
        expiresAt |-> CASE kind[2] = "ttl" -> createdAt + DRINK_TTL_HOURS * HOUR_MS
                        [] kind[2] = "expired" -> Now0
                        [] OTHER -> Now0 + 24 * HOUR_MS]

FreeCodes == 0..(4 * Len(AgeExpiry) - 1)

\* Lists of n codes in non-decreasing order, none below lo.
RECURSIVE SortedCodes(_, _)
SortedCodes(n, lo) ==
    IF n = 0 THEN {<<>>}
    ELSE UNION {{<<c>> \o rest : rest \in SortedCodes(n - 1, c)} : c \in {d \in FreeCodes : d >= lo}}

\* Vote i of the block (drinkVoteRules.test.ts lines 96-104).
BulkVote(i) ==
    [beerId |-> "beer", placeKey |-> "bulk", createdAt |-> Now0 - (i + 1) * 30 * MIN_MS,
     expiresAt |-> Now0 + 24 * HOUR_MS]

BulkSizes == {0, 10, 11, 12}

Bulk(n) == [i \in 1..n |-> BulkVote(i - 1)]

\* The list of the free votes with codes cs, then a block of n votes.
ExistingVotes(cs, n) ==
    AsArray([k \in 1..Len(cs) |-> FreeVote(cs[k])], Len(cs)) \o AsArray(Bulk(n), n)

GpsAccuracies == {20, DRINK_GPS_MAX_ACCURACY_M, DRINK_GPS_MAX_ACCURACY_M + 1}

\* Nothing of the dominance engine is under way.
NoGrid ==
    /\ votes = <<>>
    /\ weightedVotes = <<>>
    /\ radiusKm = HOME_RADIUS_KM
    /\ cells = <<>>
    /\ rows = 0
    /\ cols = 0
    /\ prevWinners = <<>>
    /\ passArg = 0
    /\ gridSpec = MunichSpec
    /\ smoothingIterations = None
    /\ mergeIslandSize = None
    /\ gridCells = <<>>
    /\ outbox = <<>>

InitDrink ==
    /\ pc = "idle"
    /\ NoGrid
    /\ NoLookup
    /\ mockTime = Some(Now0)
    /\ dateNow = 0
    /\ \E n \in BulkSizes, m \in 0..MaxFreeVotes :
          \E cs \in SortedCodes(m, 0) : drinkVotes = ExistingVotes(cs, n)
    /\ checkin = <<>>
    /\ validation = None
    /\ call = <<>>
    /\ ret = <<>>
    /\ users = <<>>
    /\ otrVotes = <<>>

\* DrinkVoteButton.tsx line 51.  The user stands at the first place; the
\* existing votes are at either place.
ValidateDrinkVote ==
    /\ pc = "idle"
    /\ \E b \in 1..Len(DrinkBeers), acc \in GpsAccuracies :
          /\ checkin' = <<PlaceKeys[1], DrinkBeers[b], acc>>
          /\ validation' = Some(validateDrinkVote(drinkVotes, PlaceKeys[1], DrinkBeers[b], acc))
    /\ pc' = "validated"
    /\ UNCHANGED <<votes, weightedVotes, radiusKm, cells, rows, cols, prevWinners, passArg,
                   workerVars, lookupVars, dateNow, drinkVotes, call, ret, users, otrVotes>>

NextDrink == ValidateDrinkVote

SpecDrink == InitDrink /\ [][NextDrink]_vars

(***************************************************************************)
(* The mock clock (domain/clock.ts): setMockTime, advanceMockTime,         *)
(* resetClock, getNow and isMockActive called in any order while the real  *)
(* clock moves on.  call holds the function called last and its argument,  *)
(* ret what getNow or isMockActive returned last.                          *)
(***************************************************************************)
MaxClockMs == 2000      \* the readings of both clocks stay within -MaxClockMs..MaxClockMs

MockTimes == {None, Some(0), Some(1000)}
DeltasMs == {-500, 500}
TickMs == 250

\* The real clock between two calls: it stands or moves on by TickMs.
DateTicks ==
    /\ dateNow' \in {dateNow, dateNow + TickMs}
    /\ dateNow' <= MaxClockMs

InitClock ==
    /\ pc = "idle"
    /\ NoGrid
    /\ NoLookup
    /\ mockTime = None
    /\ dateNow = 0
    /\ drinkVotes = <<>>
    /\ checkin = <<>>
    /\ validation = None
    /\ call = <<>>
    /\ ret = <<>>
    /\ users = <<>>
    /\ otrVotes = <<>>

ClockUnchanged ==
    UNCHANGED <<pc, votes, weightedVotes, radiusKm, cells, rows, cols, prevWinners, passArg,
                gridSpec, smoothingIterations, mergeIslandSize, gridCells, outbox,
                lookupVars, drinkVotes, checkin, validation, users, otrVotes>>

SetMockTime ==
    /\ \E time \in MockTimes :
          /\ mockTime' = setMockTime(time)
          /\ call' = <<"setMockTime", time>>
    /\ DateTicks
    /\ UNCHANGED ret
    /\ ClockUnchanged

AdvanceMockTimeBy ==
    /\ \E deltaMs \in DeltasMs :
          /\ Abs(getNow + deltaMs) <= MaxClockMs
          /\ mockTime' = advanceMockTime(deltaMs)
          /\ call' = <<"advanceMockTime", deltaMs>>
    /\ DateTicks
    /\ UNCHANGED ret
    /\ ClockUnchanged

ResetClock ==
    /\ mockTime' = resetClock
    /\ call' = <<"resetClock">>
    /\ DateTicks
    /\ UNCHANGED ret
    /\ ClockUnchanged

GetNow ==
    /\ ret' = <<"number", getNow>>
    /\ call' = <<"getNow">>
    /\ DateTicks
    /\ UNCHANGED mockTime
    /\ ClockUnchanged

IsMockActive ==
    /\ ret' = <<"boolean", IF isMockActive THEN "true" ELSE "false">>
    /\ call' = <<"isMockActive">>
    /\ DateTicks
    /\ UNCHANGED mockTime
    /\ ClockUnchanged

NextClock == SetMockTime \/ AdvanceMockTimeBy \/ ResetClock \/ GetNow \/ IsMockActive

SpecClock == InitClock /\ [][NextClock]_vars

(***************************************************************************)
(* buildWeightedVotes (domain/weights.ts): the weighted votes the worker   *)
(* is sent, built from the users, their on-the-road votes and the drink    *)
(* votes.  Weights are in 1/4000 as above; the callers modelled pass no    *)
(* teams and no duel outcomes, as the tests of the function do.            *)
(***************************************************************************)
MaxUsers == 2
MaxDrinkVotes == 2

DAY_MS == 24 * 60 * 60 * 1000

\* GAME (config/constants.ts).
HOME_BOOST_INITIAL_DAYS == 3
HOME_BOOST_MIN == 4000           \* 1.0
DECAY_PER_MISSED_DAY == 800      \* 0.2
SYG_MULTIPLIER == 2
SYG_RADIUS_DIVISOR == 2
OTR_WEIGHT_SCALE_DIV == 2        \* OTR_WEIGHT_SCALE 0.5, as a divisor
OTR_RADIUS_KM == 20
WEIGHT_MIN == 800                \* 0.2
SYG_WEIGHT_CAP == 16000          \* the literal 4.0 of computeWeightBreakdown

Max(a, b) == IF a > b THEN a ELSE b

computeBaseMultiplier(user, now) ==
    IF now - user.createdAt < HOME_BOOST_INITIAL_DAYS * DAY_MS THEN HOME_BOOST_MAX
    ELSE LET missedDays == FloorDiv(now - user.lastActiveAt, DAY_MS)
             decayed == HOME_BOOST_MAX - missedDays * DECAY_PER_MISSED_DAY
         IN Max(HOME_BOOST_MIN, Min(HOME_BOOST_MAX, decayed))

\* computeWeightBreakdown for a user without team and without duel outcomes
\* (teamBoost 0, duelDelta 0): finalWeight and effectiveRadius.
computeWeightBreakdown(user, now) ==
    LET baseMultiplier == computeBaseMultiplier(user, now)
        sygActive == user.standYourGroundEnabled
        effectiveMultiplier ==
            Min(IF sygActive THEN SYG_WEIGHT_CAP ELSE HOME_BOOST_MAX,
                baseMultiplier * (IF sygActive THEN SYG_MULTIPLIER ELSE 1))
    IN [finalWeight |-> Max(WEIGHT_MIN, effectiveMultiplier),
        effectiveRadius |-> IF sygActive THEN HOME_RADIUS_KM \div SYG_RADIUS_DIVISOR
                            ELSE HOME_RADIUS_KM]

HomeId(userId) ==
    CASE userId = "u1" -> "home_u1"
      [] userId = "u2" -> "home_u2"
      [] userId = "u3" -> "home_u3"
      [] OTHER -> "home_"

\* Lines 133-149.
HomeVote(user, now) ==
    LET breakdown == computeWeightBreakdown(user, now)
    IN [id |-> HomeId(user.id), lat |-> user.homeLat, lon |-> user.homeLon,
        beerId |-> user.beerId, weight |-> breakdown.finalWeight,
        radiusKm |-> breakdown.effectiveRadius, source |-> "home"]

\* Lines 152-172: one vote per on-the-road vote that has not expired and
\* whose user is known.
RECURSIVE OtrVotesFrom(_, _, _, _)
OtrVotesFrom(allOTRVotes, allUsers, now, k) ==
    IF k > Len(allOTRVotes) THEN <<>>
    ELSE LET otr == allOTRVotes[k]
             known == {i \in 1..Len(allUsers) : allUsers[i].id = otr.userId}
             rest == OtrVotesFrom(allOTRVotes, allUsers, now, k + 1)
         IN IF otr.expiresAt <= now \/ known = {} THEN rest
            ELSE LET user == allUsers[CHOOSE i \in known : \A j \in known : i <= j]
                 IN << [id |-> otr.id, lat |-> otr.lat, lon |-> otr.lon, beerId |-> otr.beerId,
                        weight |-> Max(WEIGHT_MIN,
                                       computeBaseMultiplier(user, now) \div OTR_WEIGHT_SCALE_DIV),
                        radiusKm |-> OTR_RADIUS_KM, source |-> "otr"] >> \o rest

DrinkVoteOf(dv) ==
    [id |-> dv.id, lat |-> dv.lat, lon |-> dv.lon, beerId |-> dv.beerId,
     weight |-> DRINK_WEIGHT, radiusKm |-> DRINK_RADIUS_KM, source |-> "drink"]

\* Fault: a drink vote is dropped only after its expiry, so that one expiring
\* at this very moment still counts.
RECURSIVE DrinkVotesFrom_KeepsExpiring(_, _, _)
DrinkVotesFrom_KeepsExpiring(allDrinkVotes, now, k) ==
    IF k > Len(allDrinkVotes) THEN <<>>
    ELSE (IF allDrinkVotes[k].expiresAt < now THEN <<>> ELSE <<DrinkVoteOf(allDrinkVotes[k])>>)
         \o DrinkVotesFrom_KeepsExpiring(allDrinkVotes, now, k + 1)

\* Lines 175-187.
RECURSIVE DrinkVotesFrom(_, _, _)
DrinkVotesFrom(allDrinkVotes, now, k) ==
    IF k > Len(allDrinkVotes) THEN <<>>
    ELSE (IF allDrinkVotes[k].expiresAt <= now THEN <<>> ELSE <<DrinkVoteOf(allDrinkVotes[k])>>)
         \o DrinkVotesFrom(allDrinkVotes, now, k + 1)

buildWeightedVotes(allUsers, allOTRVotes, allDrinkVotes, now) ==
    AsArray([i \in 1..Len(allUsers) |-> HomeVote(allUsers[i], now)], Len(allUsers))
    \o OtrVotesFrom(allOTRVotes, allUsers, now, 1)
    \o DrinkVotesFrom(allDrinkVotes, now, 1)

(***************************************************************************)
(* SpecWeights: buildWeightedVotes called once (App.tsx line 274).         *)
(***************************************************************************)
UserIds == <<"u1", "u2", "u3">>

\* <<age of the account, time since last active, standYourGroundEnabled, beerId>>
UserKinds ==
    << <<1 * DAY_MS, HOUR_MS, FALSE, "augustiner">>,
       <<10 * DAY_MS, HOUR_MS, FALSE, "augustiner">>,
       <<10 * DAY_MS, 3 * DAY_MS + HOUR_MS, TRUE, "paulaner">>,
       <<10 * DAY_MS, 7 * DAY_MS, FALSE, "paulaner">> >>

UserOf(i, kind) ==
    [id |-> UserIds[i], createdAt |-> Now0 - UserKinds[kind][1],
     lastActiveAt |-> Now0 - UserKinds[kind][2],
     homeLat |-> 481370, homeLon |-> 115750 + 100 * i,
     beerId |-> UserKinds[kind][4], standYourGroundEnabled |-> UserKinds[kind][3]]

\* Tuples of n indices into a list of len kinds.
RECURSIVE KindLists(_, _)
KindLists(n, len) ==
    IF n = 0 THEN {<<>>}
    ELSE {<<k>> \o rest : k \in 1..len, rest \in KindLists(n - 1, len)}

\* <<userId, expiresAt - now>> of an on-the-road vote.
OtrKinds == << <<"u1", DAY_MS>>, <<"u1", 0>>, <<"u9", DAY_MS>> >>

OtrOf(kind) ==
    [id |-> "otr_1", userId |-> OtrKinds[kind][1], lat |-> 482000, lon |-> 116000,
     beerId |-> "hofbraeu", expiresAt |-> Now0 + OtrKinds[kind][2]]

\* <<expiresAt - now, beerId>> of a drink vote.
DrinkKinds ==
    << <<22 * HOUR_MS, "paulaner">>, <<1, "augustiner">>, <<0, "paulaner">>,
       <<-1000, "augustiner">> >>

DrinkIds == <<"dv_1", "dv_2", "dv_3">>

DrinkOf(i, kind) ==
    [id |-> DrinkIds[i], userId |-> "u1", beerId |-> DrinkKinds[kind][2],
     lat |-> 482000 + 10 * i, lon |-> 116000, placeKey |-> "48.2000_11.6000",
     createdAt |-> Now0 + DrinkKinds[kind][1] - DRINK_TTL_HOURS * HOUR_MS,
     expiresAt |-> Now0 + DrinkKinds[kind][1]]

InitWeights ==
    /\ pc = "idle"
    /\ NoGrid
    /\ NoLookup
    /\ mockTime = Some(Now0)
    /\ dateNow = 0
    /\ \E n \in 0..MaxUsers : \E ks \in KindLists(n, Len(UserKinds)) :
          users = AsArray([i \in 1..n |-> UserOf(i, ks[i])], n)
    /\ \E n \in 0..1 : \E ks \in KindLists(n, Len(OtrKinds)) :
          otrVotes = AsArray([i \in 1..n |-> OtrOf(ks[i])], n)
    /\ \E n \in 0..MaxDrinkVotes : \E ks \in KindLists(n, Len(DrinkKinds)) :
          drinkVotes = AsArray([i \in 1..n |-> DrinkOf(i, ks[i])], n)
    /\ checkin = <<>>
    /\ validation = None
    /\ call = <<>>
    /\ ret = <<>>

\* App.tsx line 274.
BuildWeightedVotes ==
    /\ pc = "idle"
    /\ call' = <<"buildWeightedVotes">>
    /\ ret' = buildWeightedVotes(users, otrVotes, drinkVotes, getNow)
    /\ pc' = "built"
    /\ UNCHANGED <<votes, weightedVotes, radiusKm, cells, rows, cols, prevWinners, passArg,
                   workerVars, lookupVars, dateNow, drinkVotes, checkin, validation,
                   users, otrVotes>>

NextWeights == BuildWeightedVotes

SpecWeights == InitWeights /\ [][NextWeights]_vars

(***************************************************************************)
(* roundToPlaceKey (domain/placeKey.ts).  Coordinates are in 1e-5 degree   *)
(* here, finer than the four decimals of the key; a key is the pair of     *)
(* its two numbers in 1e-4 degree, which is what toFixed(4) prints.        *)
(***************************************************************************)
MaxSpan == 2            \* the points tried span MaxSpan grid steps in each direction

LAT_STEP == 180         \* 0.0018
LON_STEP == 270         \* 0.0027

\* Number.prototype.toFixed(4) of a value in 1e-5 degree.
ToFixed4(x) == RoundDiv(x, 10)

\* Fault: the coordinates are cut to the grid, not rounded to it.
roundToPlaceKey_Floors(lat, lon) ==
    LET rLat == FloorDiv(lat, LAT_STEP) * LAT_STEP
        rLon == FloorDiv(lon, LON_STEP) * LON_STEP
    IN <<ToFixed4(rLat), ToFixed4(rLon)>>

\* Math.round(lat / LAT_STEP) * LAT_STEP, the same for lon, each with four decimals.
roundToPlaceKey(lat, lon) ==
    LET rLat == RoundDiv(lat, LAT_STEP) * LAT_STEP
        rLon == RoundDiv(lon, LON_STEP) * LON_STEP
    IN <<ToFixed4(rLat), ToFixed4(rLon)>>

(***************************************************************************)
(* SpecPlaceKey: two check-ins, each rounding the position it was made at  *)
(* (DrinkVoteButton.tsx line 45).  call holds the positions, ret the keys. *)
(***************************************************************************)
\* The point of placeKey.test.ts, 48.1370 / 11.5753.
TestLat == 4813700
TestLon == 1157530

CheckinLats == {TestLat + 20 * k : k \in 0..((MaxSpan * LAT_STEP) \div 20)}
CheckinLons == {TestLon + 90 * k : k \in 0..((MaxSpan * LON_STEP) \div 90)}

InitPlaceKey ==
    /\ pc = "idle"
    /\ NoGrid
    /\ NoLookup
    /\ mockTime = None
    /\ NoDrink

RoundToPlaceKey ==
    /\ Len(call) < 2
    /\ \E lat \in CheckinLats, lon \in CheckinLons :
          /\ call' = Append(call, <<lat, lon>>)
          /\ ret' = Append(ret, roundToPlaceKey(lat, lon))
    /\ UNCHANGED <<pc, votes, weightedVotes, radiusKm, cells, rows, cols, prevWinners, passArg,
                   workerVars, lookupVars, dateNow, drinkVotes, checkin, validation,
                   users, otrVotes>>

NextPlaceKey == RoundToPlaceKey

SpecPlaceKey == InitPlaceKey /\ [][NextPlaceKey]_vars

(***************************************************************************)
(* Check-ins over time (SpecCheckin): handleCheckin (ui/DrinkVoteButton    *)
(* .tsx) stores a vote when validateDrinkVote accepts it against the       *)
(* stored votes of the user, removeExpiredDrinkVotes (storage) deletes     *)
(* the expired votes, and the real clock moves on between the two.  One    *)
(* check-in runs at a time (the button is disabled while one is under     *)
(* way).  The store starts empty or with the votes of earlier check-ins,   *)
(* one every two hours at the places and with the beers of HistoryCombos   *)
(* in turn.                                                                *)
(***************************************************************************)
MaxCheckins == 3        \* votes stored after the history

HistoryPlaces == <<"48.1404_11.5751", "48.1422_11.5751">>
HistorySizes == {0, 10, 11}
HistoryGapMs == 2 * HOUR_MS

\* The clock reading the history was made before.
CheckinStart == 20 * HOUR_MS

\* The readings the clock is looked at: CheckinStart, then the moments a
\* cooldown, a same-place-and-beer window or the day of a stored vote can
\* end, and the millisecond before each.
Instants ==
    {CheckinStart + d - e :
        d \in {DRINK_COOLDOWN_MIN * MIN_MS, 2 * HistoryGapMs, 3 * HistoryGapMs,
               3 * HistoryGapMs + DRINK_COOLDOWN_MIN * MIN_MS, 4 * HistoryGapMs},
        e \in 0..1}
    \cup {CheckinStart, CheckinStart + HistoryGapMs}

CheckinAccuracies == {DRINK_GPS_MAX_ACCURACY_M, DRINK_GPS_MAX_ACCURACY_M + 1}

\* Fault: the vote expires after an hour.
NewDrinkVote_ShortTtl(placeKey, beerId, now) ==
    [beerId |-> beerId, placeKey |-> placeKey, createdAt |-> now,
     expiresAt |-> now + HOUR_MS]

\* DrinkVoteButton.tsx lines 63-72 (id, userId, lat, lon, gpsAccuracyM and
\* proofType play no part in the rules; the id is the creation time).
NewDrinkVote(placeKey, beerId, now) ==
    [beerId |-> beerId, placeKey |-> placeKey, createdAt |-> now,
     expiresAt |-> now + DRINK_TTL_HOURS * 60 * 60 * 1000]

\* Vote i (from 0) of the history.
HistoryVote(i) ==
    NewDrinkVote(HistoryPlaces[((i \div 2) % 2) + 1], DrinkBeers[(i % 2) + 1],
                 i * HistoryGapMs)

\* saveDrinkVote: put replaces the vote with the same id.
saveDrinkVote(stored, vote) ==
    SelectSeq(stored, LAMBDA v : v.createdAt # vote.createdAt) \o <<vote>>

\* removeExpiredDrinkVotes: where('expiresAt').below(now), bulkDelete.
removeExpiredDrinkVotes(stored) ==
    LET now == getNow
    IN SelectSeq(stored, LAMBDA v : ~(v.expiresAt < now))

\* The votes stored since the history.
NewVotes == SelectSeq(drinkVotes, LAMBDA v : \E p \in 1..Len(PlaceKeys) : v.placeKey = PlaceKeys[p])

InitCheckin ==
    /\ pc = "idle"
    /\ NoGrid
    /\ NoLookup
    /\ mockTime = None
    /\ dateNow = CheckinStart
    /\ \E n \in HistorySizes : drinkVotes = AsArray([i \in 1..n |-> HistoryVote(i - 1)], n)
    /\ checkin = <<>>
    /\ validation = None
    /\ call = <<>>
    /\ ret = <<>>
    /\ users = <<>>
    /\ otrVotes = <<>>

CheckinUnchanged ==
    UNCHANGED <<pc, votes, weightedVotes, radiusKm, cells, rows, cols, prevWinners, passArg,
                workerVars, lookupVars, checkin, call, ret, users, otrVotes>>

\* DrinkVoteButton.tsx lines 34-91, at one of PlaceKeys.
HandleCheckin ==
    /\ \E p \in 1..Len(PlaceKeys), b \in 1..Len(DrinkBeers), acc \in CheckinAccuracies :
          LET placeKey == PlaceKeys[p]
              existing == drinkVotes
              result == validateDrinkVote(existing, placeKey, DrinkBeers[b], acc)
          IN /\ result.ok => Len(NewVotes) < MaxCheckins
             /\ validation' = Some(result)
             /\ IF ~result.ok
                THEN UNCHANGED drinkVotes
                ELSE drinkVotes' =
                        saveDrinkVote(drinkVotes, NewDrinkVote(placeKey, DrinkBeers[b], getNow))
    /\ UNCHANGED dateNow
    /\ CheckinUnchanged

\* App.tsx line 287.
RemoveExpiredDrinkVotes ==
    /\ drinkVotes' = removeExpiredDrinkVotes(drinkVotes)
    /\ UNCHANGED <<dateNow, validation>>
    /\ CheckinUnchanged

\* Date.now() between two calls: the clock never goes back.
TimePasses ==
    /\ \E t \in Instants :
          /\ t > dateNow
          /\ dateNow' = t
    /\ UNCHANGED <<drinkVotes, validation>>
    /\ CheckinUnchanged

NextCheckin == HandleCheckin \/ RemoveExpiredDrinkVotes \/ TimePasses

SpecCheckin == InitCheckin /\ [][NextCheckin]_vars



(***************************************************************************)
(* Reference quantities the statements about computeDominance compare the  *)
(* results with: what the votes within their gating radius add up to.      *)
(***************************************************************************)
DistM(i, v) == HaversineTable[[lat |-> v.lat, lon |-> v.lon]][i]

RECURSIVE FlatInRange(_, _, _)
FlatInRange(i, b, v) ==
    IF v > Len(votes) THEN 0
    ELSE (IF votes[v].beerId = b /\ DistM(i, votes[v]) <= radiusKm * 1000
          THEN FlatWeight ELSE 0) + FlatInRange(i, b, v + 1)

RECURSIVE WeightedInOwnRange(_, _, _)
WeightedInOwnRange(i, b, v) ==
    IF v > Len(weightedVotes) THEN 0
    ELSE (IF weightedVotes[v].beerId = b
             /\ DistM(i, weightedVotes[v]) <= weightedVotes[v].radiusKm * 1000
          THEN weightedVotes[v].weight ELSE 0) + WeightedInOwnRange(i, b, v + 1)

InRangeWeight(i, b) == FlatInRange(i, b, 1) + WeightedInOwnRange(i, b, 1)

RECURSIVE SumOver(_, _)
SumOver(S, f) ==
    IF S = {} THEN 0 ELSE LET x == CHOOSE y \in S : TRUE IN f[x] + SumOver(S \ {x}, f)

TotalInRange(i) == SumOver(BeerIds, [b \in BeerIds |-> InRangeWeight(i, b)])

CellIdx == 1..Len(GridCells)
Computed == pc = "computed"

\* C1: the prefilter never rejects a vote (flat or weighted) that lies within
\* its gating radius of a cell, so every such vote's weight reaches the cell's
\* accumulator for its label.
C1_PrefilterConservative ==
    Computed =>
        \A i \in CellIdx :
            /\ \A v \in 1..Len(votes) :
                  DistM(i, votes[v]) <= radiusKm * 1000
                      => ~BoxRejects(votes[v].lat, votes[v].lon, GridCells[i],
                                     MaxRadius(radiusKm, weightedVotes))
            /\ \A v \in 1..Len(weightedVotes) :
                  DistM(i, weightedVotes[v]) <= weightedVotes[v].radiusKm * 1000
                      => ~BoxRejects(weightedVotes[v].lat, weightedVotes[v].lon, GridCells[i],
                                     MaxRadius(radiusKm, weightedVotes))
            /\ \A b \in BeerIds : MapGet(cells[i].voteCounts, b) = InRangeWeight(i, b)

C2_FarCell(i, v) == DistM(i, v) > 25000 /\ DistM(i, v) <= 35000

C2_TwoRadii ==
    /\ Len(votes) = 0
    /\ Len(weightedVotes) = 2
    /\ weightedVotes[1].lat = weightedVotes[2].lat
    /\ weightedVotes[1].lon = weightedVotes[2].lon
    /\ weightedVotes[1].beerId # weightedVotes[2].beerId
    /\ {weightedVotes[1].radiusKm, weightedVotes[2].radiusKm} = {5, 50}

\* C2: a weighted vote adds to a cell only when the cell is within that
\* vote's own radius: no label holds more than its in-range votes give, and
\* with two votes of different labels at one place with radii 5 km and 50 km
\* a cell about 30 km away holds the 50 km vote's weight and nothing else.
C2_OwnRadiusGates ==
    Computed =>
        /\ \A i \in CellIdx, b \in BeerIds :
              MapGet(cells[i].voteCounts, b) <= InRangeWeight(i, b)
        /\ C2_TwoRadii =>
              \A i \in CellIdx :
                 C2_FarCell(i, weightedVotes[1]) =>
                    LET wide == IF weightedVotes[1].radiusKm = 50
                                THEN weightedVotes[1] ELSE weightedVotes[2]
                    IN /\ cells[i].voteCounts = <<[beerId |-> wide.beerId, w |-> wide.weight]>>
                       /\ cells[i].totalCount = wide.weight
                       /\ cells[i].winnerBeerId = wide.beerId

C2_Witness ==
    /\ Computed
    /\ C2_TwoRadii
    /\ \E i \in CellIdx :
          /\ C2_FarCell(i, weightedVotes[1])
          /\ Len(cells[i].voteCounts) = 1
          /\ cells[i].totalCount > 0

IsZeroResult(r) ==
    /\ r.totalCount = 0
    /\ r.winnerBeerId = Null
    /\ r.winnerCount = 0
    /\ r.runnerUpBeerId = Null
    /\ r.runnerUpCount = 0
    /\ r.voteCounts = <<>>
    /\ r.margin.num = 0

\* C3: a result with totalCount 0 has no winner and margin 0; a cell no vote
\* reaches is the zero result; with both vote lists empty there is exactly
\* one zero result per input cell.
C3_ZeroTotalNoWinner ==
    Computed =>
        /\ Len(cells) = Len(GridCells)
        /\ \A i \in CellIdx :
              /\ cells[i].row = GridCells[i].row /\ cells[i].col = GridCells[i].col
              /\ cells[i].totalCount = 0 =>
                    cells[i].winnerBeerId = Null /\ cells[i].margin.num = 0
              /\ TotalInRange(i) = 0 => IsZeroResult(cells[i])
        /\ (Len(votes) = 0 /\ Len(weightedVotes) = 0) =>
              \A i \in CellIdx : IsZeroResult(cells[i])

C3_Witness ==
    /\ Computed
    /\ Len(votes) + Len(weightedVotes) > 0
    /\ \E i, j \in CellIdx :
          /\ TotalInRange(i) = 0 /\ cells[i].totalCount = 0
          /\ cells[j].totalCount > 0

\* C4: the margin of every result lies in [0, 1].
C4_MarginBounds ==
    Computed =>
        \A i \in CellIdx :
            /\ cells[i].margin.den > 0
            /\ 0 <= cells[i].margin.num
            /\ cells[i].margin.num <= cells[i].margin.den

C4_Witness ==
    /\ Computed
    /\ \E i \in CellIdx :
          /\ 0 < cells[i].margin.num
          /\ cells[i].margin.num < cells[i].margin.den

IsFirstMax(m, k, excluded) ==
    /\ m[k].beerId # excluded
    /\ \A j \in 1..Len(m) :
          m[j].beerId # excluded =>
             /\ m[j].w <= m[k].w
             /\ (m[j].w = m[k].w => k <= j)

\* C6: in a cell with nonzero total the winner is the first label, in the
\* order the labels were first reached, whose accumulated weight is the
\* maximum; the runner-up is the first label of maximal weight among the
\* others, or null with count 0 when there is no other label.
C6_WinnerAndRunnerUp ==
    Computed =>
        \A i \in CellIdx :
            LET r == cells[i]
                m == r.voteCounts
            IN r.totalCount # 0 =>
                /\ \E k \in 1..Len(m) :
                      /\ IsFirstMax(m, k, Null)
                      /\ r.winnerBeerId = m[k].beerId
                      /\ r.winnerCount = m[k].w
                /\ IF Len(m) = 1
                   THEN r.runnerUpBeerId = Null /\ r.runnerUpCount = 0
                   ELSE \E k \in 1..Len(m) :
                           /\ IsFirstMax(m, k, r.winnerBeerId)
                           /\ r.runnerUpBeerId = m[k].beerId
                           /\ r.runnerUpCount = m[k].w

\* Three labels in one cell, the first-reached label is neither winner nor
\* runner-up alone: the last two tie above it.
C6_Witness ==
    /\ Computed
    /\ \E i \in CellIdx :
          LET m == cells[i].voteCounts IN
          /\ Len(m) = 3
          /\ m[1].w < m[2].w
          /\ m[2].w = m[3].w
          /\ cells[i].winnerBeerId = m[2].beerId
          /\ cells[i].runnerUpBeerId = m[3].beerId

(***************************************************************************)
(* Reference notions for the statements about the passes: neighbourhoods   *)
(* and 4-connected regions of a winner grid g (1-based row-major indices), *)
(* defined on sets, independently of the scans above.                      *)
(***************************************************************************)
GridIdx == 1..(GridRows * GridCols)
RowOf(i) == (i - 1) \div GridCols
ColOf(i) == (i - 1) % GridCols

Around8(i) ==
    {j \in GridIdx : Abs(RowOf(j) - RowOf(i)) <= 1 /\ Abs(ColOf(j) - ColOf(i)) <= 1}

Adjacent4(i, j) == Abs(RowOf(j) - RowOf(i)) + Abs(ColOf(j) - ColOf(i)) = 1

\* The in-grid 4-neighbours of every cell.
Nbrs4 ==
    AsArray([i \in GridIdx |->
              {j \in {i - GridCols, i + GridCols, i - 1, i + 1} :
                  j \in GridIdx /\ Adjacent4(i, j)}], GridRows * GridCols)

Occurrences(g, S, b) == Cardinality({j \in S : g[j] = b})

\* For every cell the smallest index of its 4-connected same-label region in
\* g (0 for a null cell): the least fixpoint of passing the smallest index on
\* to same-label neighbours.
RECURSIVE SpreadFirst(_, _)
SpreadFirst(g, f) ==
    LET f2 == AsArray([j \in GridIdx |->
                        IF g[j] = Null THEN 0
                        ELSE LET S == {f[k] : k \in {n \in Nbrs4[j] : g[n] = g[j]}} \cup {f[j]}
                             IN CHOOSE m \in S : \A x \in S : m <= x],
                     GridRows * GridCols)
    IN IF f2 = f THEN f ELSE SpreadFirst(g, f2)

RegionFirst(g) ==
    SpreadFirst(g, AsArray([j \in GridIdx |-> IF g[j] = Null THEN 0 ELSE j],
                          GridRows * GridCols))

RegionOf(g, i) == LET first == RegionFirst(g) IN {j \in GridIdx : first[j] = first[i]}

\* Number of (region cell, 4-neighbour) pairs whose neighbour carries b.
BorderCount(g, R, b) ==
    Cardinality({e \in UNION {{<<k, j>> : j \in Nbrs4[k]} : k \in R} : g[e[2]] = b})

Changed == \E i \in GridIdx : cells[i].winnerBeerId # prevWinners[i]

C7_SurroundedBy(i, b) ==
    /\ Cardinality(Around8(i)) = 9
    /\ prevWinners[i] # Null
    /\ prevWinners[i] # b
    /\ \A j \in Around8(i) \ {i} : prevWinners[j] = b

\* C7: one smoothing iteration gives every non-null cell a label that occurs
\* most often in the cell's 3x3 neighbourhood of the grid before the
\* iteration (itself included, nulls not counted) and leaves null cells
\* null; a cell whose 8 neighbours all carry one other label takes it.
C7_OneIterationMajority ==
    (pc = "smoothed" /\ passArg = 1) =>
        \A i \in GridIdx :
            LET new == cells[i].winnerBeerId IN
            /\ prevWinners[i] = Null => new = Null
            /\ prevWinners[i] # Null =>
                  /\ new \in BeerIds
                  /\ \A b \in BeerIds :
                        Occurrences(prevWinners, Around8(i), b)
                            <= Occurrences(prevWinners, Around8(i), new)
            /\ \A b \in BeerIds : C7_SurroundedBy(i, b) => new = b

C7_Witness ==
    /\ pc = "smoothed"
    /\ passArg = 1
    /\ \E i \in GridIdx, b \in BeerIds :
          /\ C7_SurroundedBy(i, b)
          /\ cells[i].winnerBeerId = b

\* C8: mergeSmallIslands (minSize > 1) gives every region of fewer than
\* minSize cells that has a non-null 4-neighbour of another label the other
\* label that occurs most often among the 4-neighbours of its cells, on all
\* of its cells, and leaves a small region without such a neighbour as it is.
C8_SmallRegionsReassigned ==
    (pc = "merged" /\ passArg > 1) =>
        \A i \in GridIdx :
            LET R == RegionOf(prevWinners, i)
                others == {b \in BeerIds \ {prevWinners[i]} :
                              BorderCount(prevWinners, R, b) > 0}
            IN (prevWinners[i] # Null /\ Cardinality(R) < passArg) =>
                  IF others = {}
                  THEN \A k \in R : cells[k].winnerBeerId = prevWinners[k]
                  ELSE \E b \in others :
                          /\ \A b2 \in others :
                                BorderCount(prevWinners, R, b2) <= BorderCount(prevWinners, R, b)
                          /\ \A k \in R : cells[k].winnerBeerId = b

\* C8 (as amended): the regions of the input grid are handled one by one in
\* row-major order of their first cell, and the neighbours of a small region
\* are counted on the grid as it stands when the region is reached: regions
\* reached earlier carry their new labels.  A small region with a non-null
\* neighbour of another label on that grid takes the most frequent such label
\* on all of its cells; one without such a neighbour is left as it is.
C8_ReassignedOnScannedGrid ==
    (pc = "merged" /\ passArg > 1) =>
        LET first == RegionFirst(prevWinners)
        IN \A i \in GridIdx :
              (prevWinners[i] # Null /\ first[i] = i) =>
                 LET R == {j \in GridIdx : first[j] = i}
                     g == AsArray([j \in GridIdx |->
                                    IF first[j] # 0 /\ first[j] < i
                                    THEN cells[j].winnerBeerId ELSE prevWinners[j]],
                                 GridRows * GridCols)
                     others == {b \in BeerIds \ {prevWinners[i]} : BorderCount(g, R, b) > 0}
                 IN Cardinality(R) < passArg =>
                       IF others = {}
                       THEN \A k \in R : cells[k].winnerBeerId = prevWinners[k]
                       ELSE \E b \in others :
                               /\ \A b2 \in others :
                                     BorderCount(g, R, b2) <= BorderCount(g, R, b)
                               /\ \A k \in R : cells[k].winnerBeerId = b

\* A region of two cells takes the label most frequent around it although
\* a neighbouring single cell of a third label was merged just before.
C8_Witness ==
    /\ pc = "merged"
    /\ passArg = 3
    /\ \E i, j, k \in GridIdx :
          /\ i < j
          /\ Adjacent4(i, j) /\ Adjacent4(j, k)
          /\ prevWinners[i] # Null /\ prevWinners[j] # Null
          /\ prevWinners[i] # prevWinners[j]
          /\ prevWinners[k] = prevWinners[j]
          /\ Cardinality(RegionOf(prevWinners, i)) = 1
          /\ Cardinality(RegionOf(prevWinners, j)) = 2
          /\ cells[i].winnerBeerId # prevWinners[i]
          /\ cells[j].winnerBeerId # prevWinners[j]
          /\ cells[k].winnerBeerId = cells[j].winnerBeerId

\* C9: a region of at least minSize cells keeps its label on all its cells,
\* whatever is merged around it.
C9_LargeRegionsKept ==
    pc = "merged" =>
        LET first == RegionFirst(prevWinners)
        IN \A i \in GridIdx :
              (prevWinners[i] # Null
                 /\ Cardinality({j \in GridIdx : first[j] = first[i]}) >= passArg)
                    => cells[i].winnerBeerId = prevWinners[i]

\* A region of exactly minSize cells is kept next to a smaller one that is
\* merged into it.
C9_Witness ==
    /\ pc = "merged"
    /\ passArg > 1
    /\ \E i, j \in GridIdx :
          /\ prevWinners[i] # Null
          /\ Cardinality(RegionOf(prevWinners, i)) = passArg
          /\ cells[i].winnerBeerId = prevWinners[i]
          /\ Adjacent4(i, j)
          /\ prevWinners[j] # Null
          /\ prevWinners[j] # prevWinners[i]
          /\ cells[j].winnerBeerId = prevWinners[i]

\* C10: smoothWinnerGrid with iterations <= 0 and mergeSmallIslands with
\* minSize <= 1 leave the winner of every cell as it was.
C10_DisabledPassesNoOp ==
    ((pc = "smoothed" /\ passArg <= 0) \/ (pc = "merged" /\ passArg <= 1)) =>
        WinnersOf(cells) = prevWinners

\* Zero iterations on a grid that one iteration would change.
C10_Witness ==
    /\ pc = "smoothed"
    /\ passArg = 0
    /\ \E i \in GridIdx, b \in BeerIds : C7_SurroundedBy(i, b)
    /\ ~Changed


(***************************************************************************)
(* The worker pipeline (SpecWorker).                                       *)
(***************************************************************************)
\* What computeDominance produced for the request under way.
RawCells == computeDominance(gridCells, votes, radiusKm, weightedVotes)

AfterPasses == pc \in {"smoothed", "merged", "posted"}

SameButWinner(c, d) == [c EXCEPT !.winnerBeerId = d.winnerBeerId] = d

\* C11: smoothWinnerGrid and mergeSmallIslands change no field of a
\* CellResult but winnerBeerId: after the passes every cell has the row, col,
\* winnerCount, totalCount, voteCounts, runnerUpBeerId, runnerUpCount and
\* margin computeDominance gave it, and the array has the same cells.
C11_PassesChangeOnlyWinner ==
    AfterPasses =>
        LET raw == RawCells
        IN  /\ Len(cells) = Len(raw)
            /\ \A k \in 1..Len(cells) : SameButWinner(cells[k], raw[k])

\* A pass changed the winner of a cell that keeps the count of its old winner.
C11_Witness ==
    /\ pc = "merged"
    /\ \E k \in 1..Len(cells) :
          /\ cells[k].winnerBeerId # RawCells[k].winnerBeerId
          /\ cells[k].winnerCount = RawCells[k].winnerCount
          /\ cells[k].winnerCount # MapGet(cells[k].voteCounts, cells[k].winnerBeerId)

\* The cells the handler must post for the request it was given.
PipelineCells ==
    LET g == precomputeGrid(gridSpec)
    IN mergeSmallIslands(
           smoothWinnerGrid(computeDominance(g.cells, votes, radiusKm, weightedVotes),
                            g.rows, g.cols, OrDefault(smoothingIterations, 2)),
           g.rows, g.cols, OrDefault(mergeIslandSize, 8))

StatementOrder ==
    { <<"idle", "enumerated">>, <<"idle", "looping">>, <<"enumerated", "computed">>,
      <<"computed", "smoothed">>, <<"computed", "error">>,
      <<"smoothed", "merged">>, <<"smoothed", "error">>, <<"merged", "posted">>,
      <<"posted", "idle">>, <<"posted", "located">>, <<"idle", "located">> }

\* C12: for each request the worker runs grid enumeration, computeDominance,
\* smoothWinnerGrid and mergeSmallIslands in this order (the merge works on
\* the smoothed grid) and posts one result per request, holding rows, cols,
\* the cells and the gridSpec of the request unchanged; a request with a
\* valid gridSpec never ends in an error before its result.
C12_PipelineOrder ==
    /\ [](pc = "posted" =>
            /\ outbox # <<>>
            /\ outbox[Len(outbox)] =
                  [type |-> "result",
                   data |-> [rows |-> precomputeGrid(gridSpec).rows,
                             cols |-> precomputeGrid(gridSpec).cols,
                             cells |-> PipelineCells,
                             gridSpec |-> gridSpec]])
    /\ [](gridSpec \in ValidSpecs => pc \notin {"error", "looping"})
    /\ [][/\ pc' # pc => <<pc, pc'>> \in StatementOrder
          /\ outbox' # outbox =>
                /\ pc = "merged" /\ pc' = "posted"
                /\ Len(outbox') = Len(outbox) + 1
                /\ SubSeq(outbox', 1, Len(outbox)) = outbox
          /\ (pc = "merged" /\ pc' = "posted") => outbox' # outbox]_vars

\* A result was posted whose cells smoothing changed before the merge.
C12_Witness ==
    /\ pc = "posted"
    /\ gridSpec \in ValidSpecs
    /\ Len(outbox) = 1
    /\ \E k \in 1..Len(cells) :
          outbox[1].data.cells[k].winnerBeerId # RawCells[k].winnerBeerId


\* The cell of the posted result at (row, col), if any.
PostedCellsAt(row, col) ==
    {k \in 1..Len(DominanceData[1].cells) :
        DominanceData[1].cells[k].row = row /\ DominanceData[1].cells[k].col = col}

\* C16: for every GridCell of precomputeGrid(gridSpec) and the result the
\* worker posted for that grid, findCellAt(centerLat, centerLon, result)
\* returns the CellResult with the row and col of the GridCell.
C16_RoundTripLookup ==
    (pc = "located" /\ outbox # <<>>) =>
        \A k \in 1..Len(precomputeGrid(gridSpec).cells) :
            LET cell == precomputeGrid(gridSpec).cells[k]
            IN query = <<cell.centerLat, cell.centerLon>> =>
                  /\ found # None
                  /\ found[1].row = cell.row
                  /\ found[1].col = cell.col
                  /\ \E j \in PostedCellsAt(cell.row, cell.col) :
                        found[1] = DominanceData[1].cells[j]

\* The centre of the last cell of a grid was looked up, and of a cell with a winner.
C16_Witness ==
    /\ pc = "located"
    /\ outbox # <<>>
    /\ gridSpec = MunichSpec
    /\ query = <<GridCells[9].centerLat, GridCells[9].centerLon>>
    /\ found # None
    /\ found[1].row = 2 /\ found[1].col = 2
    /\ found[1].winnerBeerId # Null

C19_InvalidSpecFailsFast ==
    gridSpec \in InvalidSpecs => pc \notin {"posted", "looping"}


(***************************************************************************)
(* Lookups on a result (SpecLookup).                                       *)
(***************************************************************************)
\* The cells of the latest result at grid index i (row-major, from 1).
CellsAt(i) == {k \in 1..Len(cells) : cells[k].row = RowOf(i) /\ cells[k].col = ColOf(i)}

DataCell(i) == cells[CHOOSE k \in CellsAt(i) : TRUE]

\* The winner grid of the latest result, null where it holds no cell.
DataWinners ==
    AsArray([i \in GridIdx |-> IF CellsAt(i) = {} THEN Null ELSE DataCell(i).winnerBeerId],
            GridRows * GridCols)

IsDense == Len(cells) = rows * cols /\ \A i \in GridIdx : CellsAt(i) = {i}

SetMin(S) == CHOOSE m \in S : \A x \in S : m <= x
SetMax(S) == CHOOSE m \in S : \A x \in S : m >= x

\* The first cells of the maximal 4-connected same-label components.
ComponentsOf(first) == {f \in GridIdx : first[f] = f}

MembersOf(first, f) == {j \in GridIdx : first[j] = f}

BoxOf(M) ==
    [minRow |-> SetMin({RowOf(j) : j \in M}), maxRow |-> SetMax({RowOf(j) : j \in M}),
     minCol |-> SetMin({ColOf(j) : j \in M}), maxCol |-> SetMax({ColOf(j) : j \in M})]

ComponentShape(g, first, f) ==
    [beerId |-> g[f], cellCount |-> Cardinality(MembersOf(first, f)),
     boundingBox |-> BoxOf(MembersOf(first, f))]

RegionShape(r) ==
    [beerId |-> r.beerId, cellCount |-> r.cellCount, boundingBox |-> r.boundingBox]

\* C13: extractRegions returns one Region per maximal 4-connected component
\* of cells with the same non-null winner (as many regions as components,
\* the regions of a label, size and bounding box as many as the components
\* of that label, size and bounding box), the cellCounts sum to the number of
\* non-null cells, and the list is ordered by cellCount, largest first.
C13_OneRegionPerComponent ==
    pc = "extracted" =>
        LET g == DataWinners
            first == RegionFirst(g)
            comps == ComponentsOf(first)
            shape == [f \in comps |-> ComponentShape(g, first, f)]
            idx == 1..Len(regions)
        IN /\ Len(regions) = Cardinality(comps)
           /\ \A k \in idx : \E f \in comps : RegionShape(regions[k]) = shape[f]
           /\ \A f \in comps :
                 Cardinality({k \in idx : RegionShape(regions[k]) = shape[f]})
                    = Cardinality({f2 \in comps : shape[f2] = shape[f]})
           /\ SumOver(idx, [k \in idx |-> regions[k].cellCount])
                 = Cardinality({i \in GridIdx : g[i] # Null})
           /\ \A k \in idx : k < Len(regions) => regions[k].cellCount >= regions[k + 1].cellCount

\* Regions of different sizes, two of them of the same label, extracted from a
\* grid with a null cell.
C13_Witness ==
    /\ pc = "extracted"
    /\ Len(regions) >= 3
    /\ regions[1].cellCount > regions[Len(regions)].cellCount
    /\ \E k, j \in 1..Len(regions) : k # j /\ regions[k].beerId = regions[j].beerId
    /\ \E i \in GridIdx : DataWinners[i] = Null

RECURSIVE SumMargins(_)
SumMargins(M) ==
    IF M = {} THEN [num |-> 0, den |-> 1]
    ELSE LET j == SetMin(M) IN AddFrac(DataCell(j).margin, SumMargins(M \ {j}))

MeanMargin(M) ==
    LET t == SumMargins(M) IN Reduced([num |-> t.num, den |-> t.den * Cardinality(M)])

ComponentTotals(g, first, f) ==
    LET M == MembersOf(first, f)
    IN [beerId |-> g[f], cellCount |-> Cardinality(M), boundingBox |-> BoxOf(M),
        avgMargin |-> MeanMargin(M),
        totalVotes |-> SumOver(M, [j \in M |-> DataCell(j).totalCount])]

RegionTotals(r) ==
    [beerId |-> r.beerId, cellCount |-> r.cellCount, boundingBox |-> r.boundingBox,
     avgMargin |-> r.avgMargin, totalVotes |-> r.totalVotes]

\* C14: the aggregates of each Region are those of its member cells: the
\* bounding box is the min/max row and column, cellCount the number,
\* avgMargin the mean of the raw margins and totalVotes the sum of the raw
\* totalCounts of the members; a grid of one label gives one region of
\* rows * cols cells whose bounding box is the whole grid.
C14_RegionAggregates ==
    pc = "extracted" =>
        LET g == DataWinners
            first == RegionFirst(g)
            comps == ComponentsOf(first)
            totals == [f \in comps |-> ComponentTotals(g, first, f)]
            idx == 1..Len(regions)
        IN /\ \A k \in idx : \E f \in comps : RegionTotals(regions[k]) = totals[f]
           /\ \A f \in comps :
                 Cardinality({k \in idx : RegionTotals(regions[k]) = totals[f]})
                    = Cardinality({f2 \in comps : totals[f2] = totals[f]})
           /\ (\E b \in BeerIds : \A i \in GridIdx : g[i] = b) =>
                 /\ Len(regions) = 1
                 /\ regions[1].cellCount = rows * cols
                 /\ regions[1].boundingBox =
                       [minRow |-> 0, maxRow |-> rows - 1, minCol |-> 0, maxCol |-> cols - 1]

\* A region of several cells with different margins and vote totals.
C14_Witness ==
    /\ pc = "extracted"
    /\ \E k \in 1..Len(regions) :
          /\ regions[k].cellCount >= 3
          /\ regions[k].boundingBox.maxRow > regions[k].boundingBox.minRow
          /\ regions[k].boundingBox.maxCol > regions[k].boundingBox.minCol
          /\ regions[k].avgMargin.num # regions[k].avgMargin.den
          /\ regions[k].totalVotes > regions[k].cellCount * FlatWeight


QueryInGrid == query[1] \in 0..(rows - 1) /\ query[2] \in 0..(cols - 1)

QueryIdx == query[1] * cols + query[2] + 1

\* C15: on a dense row-major result with regions = extractRegions(data),
\* findRegionForCell for a cell with a winner returns a region, never null:
\* the first region of the list whose beerId is the cell's winner and whose
\* bounding box contains the cell.
C15_FirstMatchingRegion ==
    (pc = "regionFound" /\ IsDense /\ QueryInGrid /\ DataWinners[QueryIdx] # Null) =>
        /\ found # None
        /\ found[1].beerId = DataWinners[QueryIdx]
        /\ query[1] >= found[1].boundingBox.minRow /\ query[1] <= found[1].boundingBox.maxRow
        /\ query[2] >= found[1].boundingBox.minCol /\ query[2] <= found[1].boundingBox.maxCol
        /\ \E k \in 1..Len(regions) :
              /\ regions[k] = found[1]
              /\ \A j \in 1..(k - 1) :
                    \/ regions[j].beerId # DataWinners[QueryIdx]
                    \/ query[1] < regions[j].boundingBox.minRow
                    \/ query[1] > regions[j].boundingBox.maxRow
                    \/ query[2] < regions[j].boundingBox.minCol
                    \/ query[2] > regions[j].boundingBox.maxCol

\* The cell lies in the bounding boxes of two regions of its label; the one
\* returned is the first of the list, not the component of the cell.
C15_Witness ==
    /\ pc = "regionFound" /\ IsDense /\ QueryInGrid
    /\ DataWinners[QueryIdx] # Null
    /\ found # None
    /\ found[1].cellCount # Cardinality(RegionOf(DataWinners, QueryIdx))

\* The row and column findCellAt computes for the point looked up.
QueryRow ==
    FloorDiv((query[1] - gridSpec.minLat) * METERS_PER_DEG_LAT, gridSpec.cellSizeMeters * 10000)

QueryCol ==
    FloorDiv((query[2] - gridSpec.minLon) * MetersPerDegLon(RowCenterLat(gridSpec, QueryRow)),
             gridSpec.cellSizeMeters * 10000)

\* C17: missing data is reported as null: findCellAt returns null for a null
\* result set, for a point whose row is outside [0, rows) or whose column is
\* outside [0, cols), and for a cell the result set does not hold;
\* findRegionForCell returns null for a cell that has no winner or that the
\* result set does not hold.
C17_MissingIsNull ==
    /\ (pc = "located" /\ outbox = <<>>) => found = None
    /\ (pc = "located" /\ outbox # <<>>) =>
          /\ (QueryRow < 0 \/ QueryRow >= rows) => found = None
          /\ (QueryRow >= 0 /\ QueryRow < rows /\ (QueryCol < 0 \/ QueryCol >= cols))
                => found = None
          /\ (QueryRow >= 0 /\ QueryRow < rows /\ QueryCol >= 0 /\ QueryCol < cols
              /\ CellsAt(QueryRow * cols + QueryCol + 1) = {}) => found = None
    /\ pc = "regionFound" =>
          /\ (~QueryInGrid \/ CellsAt(QueryIdx) = {}) => found = None
          /\ (QueryInGrid /\ CellsAt(QueryIdx) # {} /\ DataCell(QueryIdx).winnerBeerId = Null)
                => found = None

\* The latest result with the cells it leaves out put back as zero results.
DenseData ==
    [rows |-> rows, cols |-> cols, gridSpec |-> gridSpec,
     cells |-> AsArray([i \in GridIdx |-> IF CellsAt(i) = {} THEN ZeroResult(GridCells[i])
                                          ELSE DataCell(i)], GridRows * GridCols)]

\* C20: a result that leaves the cells of zero total weight out is read like
\* the result that holds them: extractRegions returns the same regions, and
\* findRegionForCell the same region for every cell with a winner.
C20_SparseLikeDense ==
    /\ pc \in {"extracted", "regionFound"} => regions = extractRegions(DenseData)
    /\ (pc = "regionFound" /\ QueryInGrid /\ DataWinners[QueryIdx] # Null) =>
          found = findRegionForCell(query[1], query[2], extractRegions(DenseData), DenseData)

(***************************************************************************)
(* Drink vote rules (SpecDrink).                                           *)
(***************************************************************************)
Validated == pc = "validated"
CandidatePlace == checkin[1]
CandidateBeer == checkin[2]
CandidateAccuracy == checkin[3]
Result == validation[1]

\* Milliseconds since vote k of the store was created.
AgeOf(k) == getNow - drinkVotes[k].createdAt

NotExpired(k) == drinkVotes[k].expiresAt > getNow

\* Some non-expired vote is younger than the cooldown.
InCooldown ==
    \E k \in 1..Len(drinkVotes) : NotExpired(k) /\ AgeOf(k) < DRINK_COOLDOWN_MIN * MIN_MS

\* Some non-expired vote of the candidate's place and beer is younger than the window.
HasDuplicate ==
    \E k \in 1..Len(drinkVotes) :
        /\ NotExpired(k)
        /\ drinkVotes[k].placeKey = CandidatePlace
        /\ drinkVotes[k].beerId = CandidateBeer
        /\ AgeOf(k) < DRINK_SAME_PLACE_BEER_WINDOW_H * HOUR_MS

\* The votes created within the last 24 hours, expired or not.
VotesOfTheDay == {k \in 1..Len(drinkVotes) : AgeOf(k) < 24 * HOUR_MS}

\* C21: with GPS accuracy <= 75 m validateDrinkVote answers ok = false,
\* errorCode 'cooldown' whenever some non-expired existing vote was created
\* less than 15 minutes before the clock reading, whatever its placeKey and
\* beerId; when every existing vote is 15 minutes old or older the answer is
\* never 'cooldown'.
C21_Cooldown ==
    (Validated /\ CandidateAccuracy <= DRINK_GPS_MAX_ACCURACY_M) =>
        /\ InCooldown => Result = [ok |-> FALSE, errorCode |-> "cooldown"]
        /\ (\A k \in 1..Len(drinkVotes) : AgeOf(k) >= DRINK_COOLDOWN_MIN * MIN_MS)
              => Result.errorCode # "cooldown"

\* A cooldown caused by a vote of another place and another beer, one
\* millisecond short of 15 minutes old.
C21_Witness ==
    /\ Validated
    /\ Result.errorCode = "cooldown"
    /\ \A k \in 1..Len(drinkVotes) :
          (NotExpired(k) /\ AgeOf(k) < DRINK_COOLDOWN_MIN * MIN_MS) =>
              /\ drinkVotes[k].placeKey # CandidatePlace
              /\ drinkVotes[k].beerId # CandidateBeer
              /\ AgeOf(k) = DRINK_COOLDOWN_MIN * MIN_MS - 1

\* C22: with acceptable GPS accuracy and no cooldown, validateDrinkVote
\* answers 'same_place_beer' when some non-expired existing vote has the
\* candidate's placeKey and beerId and is less than 6 hours old; votes that
\* differ in beerId or in placeKey never cause that answer.
C22_SamePlaceBeer ==
    (Validated /\ CandidateAccuracy <= DRINK_GPS_MAX_ACCURACY_M /\ ~InCooldown) =>
        /\ HasDuplicate => Result = [ok |-> FALSE, errorCode |-> "same_place_beer"]
        /\ (\A k \in 1..Len(drinkVotes) :
               \/ drinkVotes[k].placeKey # CandidatePlace
               \/ drinkVotes[k].beerId # CandidateBeer)
              => Result.errorCode # "same_place_beer"

\* An accepted candidate although a vote of the same place with another
\* beer, and one of the same beer at another place, are inside the window.
C22_Witness ==
    /\ Validated
    /\ Result.ok
    /\ \E k \in 1..Len(drinkVotes) :
          /\ NotExpired(k) /\ AgeOf(k) < DRINK_SAME_PLACE_BEER_WINDOW_H * HOUR_MS
          /\ drinkVotes[k].placeKey = CandidatePlace
          /\ drinkVotes[k].beerId # CandidateBeer
    /\ \E k \in 1..Len(drinkVotes) :
          /\ NotExpired(k) /\ AgeOf(k) < DRINK_SAME_PLACE_BEER_WINDOW_H * HOUR_MS
          /\ drinkVotes[k].placeKey # CandidatePlace
          /\ drinkVotes[k].beerId = CandidateBeer

\* C23: when the GPS, cooldown and same-place checks pass, validateDrinkVote
\* answers 'daily_cap' if at least 12 existing votes were created within the
\* last 24 hours (createdAt > now - 24 h, what getDailyDrinkCount counts) and
\* ok = true if 11 or fewer were.
C23_DailyCap ==
    (Validated /\ CandidateAccuracy <= DRINK_GPS_MAX_ACCURACY_M /\ ~InCooldown /\ ~HasDuplicate) =>
        /\ getDailyDrinkCount(drinkVotes) = Cardinality(VotesOfTheDay)
        /\ Cardinality(VotesOfTheDay) >= 12 => Result = [ok |-> FALSE, errorCode |-> "daily_cap"]
        /\ Cardinality(VotesOfTheDay) <= 11 => Result.ok

\* Exactly 12 votes of the day, one of them expired and one a millisecond
\* inside the window, next to one exactly 24 hours old that does not count.
C23_Witness ==
    /\ Validated
    /\ Result.errorCode = "daily_cap"
    /\ Cardinality(VotesOfTheDay) = 12
    /\ \E k \in VotesOfTheDay : ~NotExpired(k)
    /\ \E k \in VotesOfTheDay : AgeOf(k) = 24 * HOUR_MS - 1

(***************************************************************************)
(* The mock clock (SpecClock).                                             *)
(***************************************************************************)
\* What a call made while (held, real) are the mock and the real time must
\* leave as mock time and return.
ClockStep(op, arg, held, real, heldAfter, returned) ==
    /\ op = "setMockTime" => heldAfter = arg
    /\ op = "advanceMockTime" =>
          heldAfter = IF held = None THEN <<real + arg>> ELSE <<held[1] + arg>>
    /\ op = "resetClock" => heldAfter = None
    /\ op = "getNow" =>
          /\ heldAfter = held
          /\ returned = <<"number", IF held = None THEN real ELSE held[1]>>
    /\ op = "isMockActive" =>
          /\ heldAfter = held
          /\ returned = <<"boolean", IF held = None THEN "false" ELSE "true">>

\* C24: over any sequence of setMockTime, advanceMockTime and resetClock
\* calls, isMockActive() is true iff a non-null mock time is held, getNow()
\* returns exactly the held time and the real time when none is held,
\* setMockTime(t) makes the held time t (none for null), advanceMockTime(d)
\* adds exactly d to the held time, or to the real time when none was held,
\* and resetClock() leaves none held.
C24_MockClock ==
    [][ClockStep(call'[1], IF Len(call') > 1 THEN call'[2] ELSE 0, mockTime, dateNow,
                 mockTime', ret')]_vars

\* getNow returned a held time that advanceMockTime started from the real
\* clock (a reading that is no multiple of the deltas).
C24_Witness ==
    /\ call = <<"getNow">>
    /\ mockTime # None
    /\ mockTime[1] % 500 = TickMs
    /\ ret = <<"number", mockTime[1]>>

(***************************************************************************)
(* buildWeightedVotes (SpecWeights).                                       *)
(***************************************************************************)
Built == pc = "built"

\* The places of the output a vote of the source holds.
OutOf(source) == {k \in 1..Len(ret) : ret[k].source = source}

\* The drink votes that have not expired at the clock reading.
LiveDrinkVotes == {j \in 1..Len(drinkVotes) : drinkVotes[j].expiresAt > getNow}

\* C25: buildWeightedVotes emits exactly one 'home' vote per user and, for
\* each drink vote with expiresAt > now, one 'drink' vote of weight 0.75 and
\* radius 5 km with the drink vote's own beerId and position; a drink vote
\* with expiresAt <= now gets none; without drink and on-the-road votes the
\* output is exactly the home votes.
C25_HomeAndDrinkVotes ==
    Built =>
        /\ Cardinality(OutOf("home")) = Len(users)
        /\ \A i \in 1..Len(users) :
              Cardinality({k \in OutOf("home") :
                              /\ ret[k].id = HomeId(users[i].id)
                              /\ ret[k].beerId = users[i].beerId
                              /\ ret[k].lat = users[i].homeLat
                              /\ ret[k].lon = users[i].homeLon}) = 1
        /\ Cardinality(OutOf("drink")) = Cardinality(LiveDrinkVotes)
        /\ \A j \in 1..Len(drinkVotes) :
              LET outs == {k \in OutOf("drink") : ret[k].id = drinkVotes[j].id}
              IN IF j \in LiveDrinkVotes
                 THEN /\ Cardinality(outs) = 1
                      /\ \A k \in outs :
                            /\ ret[k].weight * 4 = 3 * FlatWeight
                            /\ ret[k].radiusKm = 5
                            /\ ret[k].beerId = drinkVotes[j].beerId
                            /\ ret[k].lat = drinkVotes[j].lat
                            /\ ret[k].lon = drinkVotes[j].lon
                 ELSE outs = {}
        /\ (drinkVotes = <<>> /\ otrVotes = <<>>) =>
              /\ Len(ret) = Len(users)
              /\ OutOf("home") = 1..Len(ret)

\* Two users, an on-the-road vote, a drink vote that is live and one that
\* expires at this very moment: four votes come out.
C25_Witness ==
    /\ Built
    /\ Len(users) = 2
    /\ OutOf("otr") # {}
    /\ \E j \in 1..Len(drinkVotes) : drinkVotes[j].expiresAt = getNow
    /\ Cardinality(LiveDrinkVotes) = 1
    /\ Len(ret) = 4

(***************************************************************************)
(* roundToPlaceKey (SpecPlaceKey).                                         *)
(***************************************************************************)
TwoCheckins == Len(call) = 2
LatApart == Abs(call[1][1] - call[2][1])
LonApart == Abs(call[1][2] - call[2][2])
SameKey == ret[1] = ret[2]

\* The grid node nearest to x: the n with n * step - step / 2 <= x < n * step + step / 2.
NodeOf(x, step) ==
    CHOOSE n \in (x \div step - 1)..(x \div step + 1) :
        (2 * n - 1) * step <= 2 * x /\ 2 * x < (2 * n + 1) * step

Around8Of == AsArray([i \in GridIdx |-> Around8(i)], GridRows * GridCols)

\* The majority label of the neighbourhood of i in g: most occurrences, and
\* among equals the one met first in reading order.
MajorityAround(g, i) ==
    LET n == Len(LabelOrder)
        places == AsArray([k \in 1..n |-> {j \in Around8Of[i] : g[j] = LabelOrder[k]}], n)
        count == AsArray([k \in 1..n |-> Cardinality(places[k])], n)
        first == AsArray([k \in 1..n |->
                            IF places[k] = {} THEN 0
                            ELSE CHOOSE j \in places[k] : \A m \in places[k] : j <= m], n)
        best == CHOOSE k \in 1..n :
                    /\ count[k] > 0
                    /\ \A d \in (1..n) \ {k} :
                          \/ count[d] < count[k]
                          \/ count[d] = count[k] /\ first[k] < first[d]
    IN LabelOrder[best]

\* The one-round whole-grid majority function: every cell from g alone.
MajorityRound(g) ==
    AsArray([i \in GridIdx |-> IF g[i] = Null THEN Null ELSE MajorityAround(g, i)],
            GridRows * GridCols)

RECURSIVE MajorityRounds(_, _)
MajorityRounds(g, k) == IF k = 0 THEN g ELSE MajorityRounds(MajorityRound(g), k - 1)

\* C27: smoothWinnerGrid updates synchronously: in one round every cell's new
\* label comes from the grid as it was at the start of the round, so that k
\* iterations are the k-fold composition of the one-round whole-grid
\* majority function.
C27_SynchronousRounds ==
    (pc = "smoothed" /\ passArg >= 1) =>
        WinnersOf(cells) = MajorityRounds(prevWinners, passArg)

\* Two rounds whose second changed a cell again, on a grid where rewriting
\* the cells one after the other in place would have given another result.
C27_Witness ==
    /\ pc = "smoothed"
    /\ passArg = 2
    /\ WinnersOf(cells) # MajorityRound(prevWinners)
    /\ SmoothRound_InPlace(prevWinners, GridRows, GridCols) # MajorityRound(prevWinners)

\* The labels after the pass.
OutWinners == WinnersOf(cells)

\* Some 4-neighbour of a cell of R carries a label other than that of R in g.
HasForeignNeighbour(g, R) ==
    \E k \in R : \E j \in Nbrs4[k] : g[j] # Null /\ g[j] # g[k]

\* The regions of g, each as the set of its cells.
RegionsOf(g) ==
    LET first == RegionFirst(g)
    IN {{j \in GridIdx : first[j] = i} : i \in {k \in GridIdx : first[k] = k}}

InputLabels == {prevWinners[k] : k \in 1..Len(prevWinners)} \ {Null}

\* C29: neither post-processing pass changes which cells are null or
\* invents labels: after any number of smoothWinnerGrid iterations, and
\* after mergeSmallIslands following them, a cell is null iff it was null
\* in the grid the passes were given, and every non-null label is the
\* winner of some cell of that grid.
C29_NullsAndLabelsKept ==
    pc \in {"smoothed", "merged"} =>
        LET out == OutWinners
            labels == InputLabels
        IN \A k \in 1..Len(out) :
              /\ out[k] = Null <=> prevWinners[k] = Null
              /\ out[k] # Null => out[k] \in labels

\* Both passes changed winners on a grid with a null cell and three labels:
\* smoothing changed the grid it was given and the merge changed the
\* smoothed grid.
C29_Witness ==
    /\ pc = "merged"
    /\ passArg >= 2
    /\ Cardinality(InputLabels) = 3
    /\ \E k \in 1..Len(prevWinners) : prevWinners[k] = Null
    /\ \E iterations \in 1..MaxIterations :
          LET smoothed == SmoothRounds(prevWinners, rows, cols, 0, iterations)
          IN /\ smoothed # prevWinners
             /\ OutWinners # smoothed
             /\ OutWinners = MergeScan(smoothed,
                                 AsArray([i \in 1..(rows * cols) |-> 0], rows * cols),
                                 rows, cols, passArg, 0)

\* Stored votes k and l were created less than d ms apart.
CreatedWithin(k, l, d) == Abs(drinkVotes[k].createdAt - drinkVotes[l].createdAt) < d

\* The stored votes created in the 24 hours (86,400,000 consecutive
\* milliseconds) that begin with the creation of vote k.
InDayFrom(k) ==
    {l \in 1..Len(drinkVotes) :
        /\ drinkVotes[l].createdAt >= drinkVotes[k].createdAt
        /\ drinkVotes[l].createdAt < drinkVotes[k].createdAt + 24 * HOUR_MS}

\* C30: the rate limits hold over any history: when votes are stored only
\* after validateDrinkVote accepted them against the stored votes, with
\* createdAt = now and expiresAt = now + 24 h, the clock never going back
\* and expired votes removed at any moment, then in every reachable state
\* any two stored votes were created at least 15 minutes apart, no two
\* stored votes with the same placeKey and beerId were created less than 6
\* hours apart, and at most 12 stored votes were created inside any window
\* of 24 hours (86,400,000 consecutive milliseconds).
C30_RateLimitsHold ==
    \A k \in 1..Len(drinkVotes) :
        /\ \A l \in 1..Len(drinkVotes) :
              k # l =>
                 /\ ~CreatedWithin(k, l, 15 * MIN_MS)
                 /\ (drinkVotes[k].placeKey = drinkVotes[l].placeKey
                        /\ drinkVotes[k].beerId = drinkVotes[l].beerId)
                       => ~CreatedWithin(k, l, 6 * HOUR_MS)
        /\ Cardinality(InDayFrom(k)) <= 12

\* Twelve votes of one day are stored, three of them since the history, two
\* of these exactly a quarter of an hour apart and two with the same place
\* and beer exactly six hours apart, and the check-in tried last was
\* turned down for the daily cap.
C30_Witness ==
    /\ validation = Some(Rejected("daily_cap"))
    /\ Len(NewVotes) = 3
    /\ \E k \in 1..Len(drinkVotes) : Cardinality(InDayFrom(k)) = 12
    /\ \E k, l \in 1..Len(drinkVotes) :
          drinkVotes[l].createdAt = drinkVotes[k].createdAt + 15 * MIN_MS
    /\ \E k, l \in 1..Len(drinkVotes) :
          /\ drinkVotes[k].placeKey = drinkVotes[l].placeKey
          /\ drinkVotes[k].beerId = drinkVotes[l].beerId
          /\ drinkVotes[l].createdAt = drinkVotes[k].createdAt + 6 * HOUR_MS

=============================================================================
